---- MODULE Spec2Model ----
(***************************************************************************)
(* Fourier shell correlation of cryodrgn (commands_utils/fsc.py):          *)
(* get_fftn_dists, calculate_fsc, get_fsc_thresholds, correct_fsc,         *)
(* calculate_cryosparc_fscs and main, as state machines over small cubic   *)
(* volumes.                                                                *)
(*                                                                         *)
(* Numbers.  Real-space voxel values and mask values are exact rationals   *)
(* (integer numerators over a common denominator).  Fourier coefficients   *)
(* are exact elements of Z[zeta], zeta = exp(2 pi i / 12), which holds the *)
(* D-th roots of unity for the side lengths D in {2, 4, 6}, and the        *)
(* coefficients of the volumes of side 32 whose nonzero voxels have        *)
(* coordinates that are multiples of 8.  A correlation                     *)
(* value (a Python float) is a multiple of 1/FScale, truncated toward      *)
(* zero, or NaN.  A pixel resolution i/D is the exact rational.            *)
(***************************************************************************)
EXTENDS Integers, Sequences, FiniteSets, TLC

\* voxel values of the input volumes range over -MaxVal .. MaxVal
MaxVal == 1
\* a mask value is k / MaskDen, k in 0 .. MaskDen
MaskDen == 2
\* a correlation value is k / FScale
FScale == 1000

--------------------------------------------------------------------------
(* Integer helpers *)

Abs(n) == IF n < 0 THEN -n ELSE n

Sign(n) == IF n < 0 THEN -1 ELSE IF n > 0 THEN 1 ELSE 0

RECURSIVE Gcd(_, _)
Gcd(a, b) == IF b = 0 THEN Abs(a) ELSE Gcd(b, a % Abs(b))

RECURSIVE SumRange(_, _, _)
\* s[lo] + ... + s[hi], halving the range
SumRange(s, lo, hi) ==
    IF lo > hi THEN 0
    ELSE IF lo = hi THEN s[lo]
    ELSE LET mid == (lo + hi) \div 2
         IN  SumRange(s, lo, mid) + SumRange(s, mid + 1, hi)

SumSeq(s) == SumRange(s, 1, Len(s))

RECURSIVE SetToSeq(_)
SetToSeq(S) == IF S = {} THEN <<>>
               ELSE LET x == CHOOSE y \in S : TRUE
                    IN  <<x>> \o SetToSeq(S \ {x})

\* Python int(): truncation toward zero of num / den (den > 0)
TruncDiv(num, den) == IF num >= 0 THEN num \div den ELSE -((-num) \div den)

--------------------------------------------------------------------------
(* Unbounded naturals, little-endian in base BigBase: the products of shell *)
(* powers exceed 32 bits.                                                   *)

BigBase == 100 * 100

RECURSIVE BigFromNat(_)
BigFromNat(n) == IF n < BigBase THEN <<n>>
                 ELSE <<n % BigBase>> \o BigFromNat(n \div BigBase)

RECURSIVE BigCarry(_, _)
BigCarry(s, carry) ==
    IF s = <<>> THEN (IF carry = 0 THEN <<>> ELSE BigFromNat(carry))
    ELSE LET t == Head(s) + carry
         IN  <<t % BigBase>> \o BigCarry(Tail(s), t \div BigBase)

BigMul(x, y) ==
    LET n == Len(x) + Len(y) - 1
        conv == [k \in 1..n |->
                   SumRange([i \in 1..Len(x) |->
                               IF k + 1 - i \in 1..Len(y)
                               THEN x[i] * y[k + 1 - i] ELSE 0], 1, Len(x))]
    IN  BigCarry(SubSeq(conv, 1, n), 0)

RECURSIVE BigStrip(_)
BigStrip(x) == IF Len(x) > 1 /\ x[Len(x)] = 0
               THEN BigStrip(SubSeq(x, 1, Len(x) - 1)) ELSE x

RECURSIVE BigLeqAt(_, _, _)
BigLeqAt(x, y, k) == IF k = 0 THEN TRUE
                     ELSE IF x[k] # y[k] THEN x[k] < y[k]
                     ELSE BigLeqAt(x, y, k - 1)

BigLeq(x, y) ==
    LET a == BigStrip(x)
        b == BigStrip(y)
    IN  IF Len(a) # Len(b) THEN Len(a) < Len(b) ELSE BigLeqAt(a, b, Len(a))

--------------------------------------------------------------------------
(* Z[zeta], zeta = exp(2 pi i / 12): <<a, b, c, d>> is                      *)
(* a + b zeta + c zeta^2 + d zeta^3, with zeta^4 = zeta^2 - 1.              *)

ZZero == <<0, 0, 0, 0>>

ZAdd(u, v) == <<u[1] + v[1], u[2] + v[2], u[3] + v[3], u[4] + v[4]>>

ZScale(n, u) == <<n * u[1], n * u[2], n * u[3], n * u[4]>>

ZMul(u, v) ==
    LET c0 == u[1] * v[1]
        c1 == u[1] * v[2] + u[2] * v[1]
        c2 == u[1] * v[3] + u[2] * v[2] + u[3] * v[1]
        c3 == u[1] * v[4] + u[2] * v[3] + u[3] * v[2] + u[4] * v[1]
        c4 == u[2] * v[4] + u[3] * v[3] + u[4] * v[2]
        c5 == u[3] * v[4] + u[4] * v[3]
        c6 == u[4] * v[4]
    IN  <<c0 - c4 - c6, c1 - c5, c2 + c4, c3 + c5>>

\* complex conjugate: conj(zeta) = zeta - zeta^3, conj(zeta^2) = 1 - zeta^2
ZConj(u) == <<u[1] + u[3], u[2], -u[3], -u[2] - u[4]>>

\* zeta^e, e in 0 .. 11
ZPow == <<  <<1, 0, 0, 0>>,  <<0, 1, 0, 0>>,  <<0, 0, 1, 0>>,  <<0, 0, 0, 1>>,
            <<-1, 0, 1, 0>>, <<0, -1, 0, 1>>, <<-1, 0, 0, 0>>, <<0, -1, 0, 0>>,
            <<0, 0, -1, 0>>, <<0, 0, 0, -1>>, <<1, 0, -1, 0>>, <<0, 1, 0, -1>> >>

\* exp(-2 pi i e / D) = zeta^(12 (-e mod D) / D), for D and e with D
\* dividing 12 e: any e when D divides 12, and the multiples of 8 at D = 32
Root(D, e) == ZPow[((12 * ((-e) % D)) \div D) + 1]

\* twice the real part; the zeta component is zero in Z[i] and in Z[zeta^2],
\* where the coefficients of D in {2, 4, 6} live
Re2(u) == 2 * u[1] + u[3]

RECURSIVE ZSumRange(_, _, _)
ZSumRange(s, lo, hi) ==
    IF lo > hi THEN ZZero
    ELSE IF lo = hi THEN s[lo]
    ELSE LET mid == (lo + hi) \div 2
         IN  ZAdd(ZSumRange(s, lo, mid), ZSumRange(s, mid + 1, hi))

--------------------------------------------------------------------------
(* Python values *)

\* a float: a multiple of 1/FScale, or NaN
Float(x) == [nan |-> FALSE, fx |-> x]

\* the float 0.0
Nought == Float(0)

NaN == [nan |-> TRUE, fx |-> 0]

\* the float -1.0
MinusOne == Float(-FScale)

One == Float(FScale)

\* f >= num/den as Python evaluates it: False for NaN
FloatGeq(f, num, den) == ~f.nan /\ f.fx * den >= num * FScale

\* an exact rational num/den, den > 0
Rat(n, d) == [num |-> n, den |-> d]

RatLt(a, b) == a.num * b.den < b.num * a.den

RatLeq(a, b) == a.num * b.den <= b.num * a.den

RatEq(a, b) == a.num * b.den = b.num * a.den

None == [none |-> TRUE]

IsNone(x) == "none" \in DOMAIN x

--------------------------------------------------------------------------
(* Volumes: a cubic array of side D, held as its nonzero entries.  The     *)
(* value at voxel x is nz[x] / den; den and the numerators have no common  *)
(* factor, so that equal arrays are equal records.                         *)

Idx(D) == 0 .. (D - 1)

Vox(D) == Idx(D) \X Idx(D) \X Idx(D)

\* an axis that starts one step later
CoordFromNext(D, i) == ((-D) \div 2) + i + 1

\* x = np.arange(-resolution // 2, resolution // 2): the coordinate at index i
Coord(D, i) == ((-D) \div 2) + i

Center(D) == <<D \div 2, D \div 2, D \div 2>>

RECURSIVE GcdSeq(_)
GcdSeq(s) == IF s = <<>> THEN 0 ELSE Gcd(Head(s), GcdSeq(Tail(s)))

MkVolume(D, den, raw) ==
    LET S == {x \in DOMAIN raw : raw[x] # 0}
        g == Gcd(den, GcdSeq(SetToSeq({Abs(raw[x]) : x \in S})))
    IN  [D |-> D, den |-> den \div g, nz |-> [x \in S |-> raw[x] \div g]]

VolAt(vol, x) == IF x \in DOMAIN vol.nz THEN vol.nz[x] ELSE 0

(* Masks: real-valued arrays in [0, 1] of the volume's shape.  A mask is   *)
(* radial: 1 up to squared radius core, lvl / MaskDen up to squared radius *)
(* edge, 0 beyond.                                                         *)
Dist2(D, x) == Coord(D, x[1]) * Coord(D, x[1]) + Coord(D, x[2]) * Coord(D, x[2])
               + Coord(D, x[3]) * Coord(D, x[3])

MaskAt(mask, D, x) ==
    IF Dist2(D, x) <= mask.core THEN MaskDen
    ELSE IF Dist2(D, x) <= mask.edge THEN mask.lvl
    ELSE 0

\* vol *= initial_mask, in place: the caller's array after the statement
MaskedInPlace(vol, mask) ==
    MkVolume(vol.D, vol.den * MaskDen,
             [x \in DOMAIN vol.nz |-> vol.nz[x] * MaskAt(mask, vol.D, x)])

--------------------------------------------------------------------------
(* get_fftn_dists: the squared distances (the comparisons dists < i and    *)
(* dists > phase_D are comparisons of squares), and whether the assertion  *)
(* on the centre voxel holds.                                              *)
get_fftn_dists(resolution) ==
    [dists2 |-> [x \in Vox(resolution) |-> Dist2(resolution, x)],
     assert_ok |-> Dist2(resolution, Center(resolution)) = 0]

\* dists <= i
DistLeq(d2, i) == d2 <= i * i

\* dists < i, for a shell index i >= 1
DistLt(d2, i) == d2 < i * i

\* dists >= phase_D
DistGeq(d2, phase_D) == phase_D < 0 \/ d2 >= phase_D * phase_D

\* dists > phase_D; every distance exceeds a negative phase_D
DistGt(d2, phase_D) == phase_D < 0 \/ d2 > phase_D * phase_D

\* the voxels of an array in the order boolean indexing visits them (row-major)
VoxSeq(D) == [n \in 1..(D * D * D) |->
                <<(n - 1) \div (D * D), ((n - 1) \div D) % D, (n - 1) % D>>]

(* A boolean array dists < r is held as its bound r; np.zeros is the bound *)
(* 0.  np.where(mask & np.logical_not(prev_mask)), mask = dists < i and    *)
(* prev_mask = dists < prev: the voxels selected, in row-major order.      *)
Shell(D, dists2, i, prev) ==
    SelectSeq(VoxSeq(D), LAMBDA x : DistLt(dists2[x], i) /\ ~DistLt(dists2[x], prev))

(* fft.fftn_center: the centred discrete Fourier transform,                *)
(* F[k] = sum_x vol[x] exp(-2 pi i k.x / D), k and x counted from the      *)
(* centre index.  The common denominator of the values is dropped: every   *)
(* use of F is a correlation, which does not change when F is scaled by a  *)
(* positive number.                                                        *)
fftn_center(vol) ==
    LET D == vol.D
        supp == SetToSeq(DOMAIN vol.nz)
    IN  [k \in Vox(D) |->
           ZSumRange([n \in 1..Len(supp) |->
                        ZScale(vol.nz[supp[n]],
                               Root(D, Coord(D, k[1]) * Coord(D, supp[n][1])
                                     + Coord(D, k[2]) * Coord(D, supp[n][2])
                                     + Coord(D, k[3]) * Coord(D, supp[n][3])))],
                     1, Len(supp))]

\* vol[shell]: the coefficients at the selected voxels, as a list
Take(F, shell) == SubSeq([n \in 1..Len(shell) |-> F[shell[n]]], 1, Len(shell))

\* np.vdot(v1, v2): the sum of conj(v1[n]) * v2[n]
Vdot(v1, v2) ==
    ZSumRange([n \in 1..Len(v1) |-> ZMul(ZConj(v1[n]), v2[n])], 1, Len(v1))

RECURSIVE CorrSearch(_, _, _, _)
\* the largest k in lo .. hi with 4 k^2 n1 n2 <= FScale^2 re2^2
CorrSearch(lo, hi, lhs, rhs) ==
    IF lo = hi THEN lo
    ELSE LET mid == (lo + hi + 1) \div 2
         IN  IF BigLeq(BigMul(BigFromNat(mid * mid), lhs), rhs)
             THEN CorrSearch(mid, hi, lhs, rhs)
             ELSE CorrSearch(lo, mid - 1, lhs, rhs)

\* the real part of vdot(v1, v2), not divided by the powers
Unnormalized(v1, v2) ==
    IF Vdot(v1, v1)[1] = 0 \/ Vdot(v2, v2)[1] = 0 THEN NaN
    ELSE Float(TruncDiv(FScale * Re2(Vdot(v1, v2)), 2))

(* float((np.vdot(v1, v2) / (np.vdot(v1, v1) * np.vdot(v2, v2)) ** 0.5).real): *)
(* 0/0 is NaN (a shell of zero power); otherwise re / sqrt(n1 n2), where    *)
(* re is the real part of vdot(v1, v2) and n1, n2 are the two powers.       *)
Correlation(v1, v2) ==
    LET re2 == Re2(Vdot(v1, v2))
        n1 == Vdot(v1, v1)[1]
        n2 == Vdot(v2, v2)[1]
    IN  IF n1 = 0 \/ n2 = 0 THEN NaN
        ELSE LET lhs == BigMul(BigFromNat(4), BigMul(BigFromNat(n1), BigFromNat(n2)))
                 rhs == BigMul(BigFromNat(FScale * FScale),
                               BigMul(BigFromNat(Abs(re2)), BigFromNat(Abs(re2))))
             IN  Float(Sign(re2) * CorrSearch(0, FScale, lhs, rhs))

\* v1 = vol1[shell]; v2 = vol2[shell]; p = ...; float(p.real)
ShellCorr(F1, F2, shell) == Correlation(Take(F1, shell), Take(F2, shell))

\* an axis that starts at 1 / D
PixresFromOne(D) == [r \in 1..(D \div 2) |-> Rat(r, D)]

\* np.arange(D // 2) / D, as rows 1 .. D // 2
Pixres(D) == [r \in 1..(D \div 2) |-> Rat(r - 1, D)]

\* pd.DataFrame(dict(pixres=..., fsc=...)): the two columns
DataFrame(pixres, fsc) == [pixres |-> pixres, fsc |-> fsc]

\* fsc_vals.shape[0]
Rows(fsc_vals) == Len(fsc_vals.fsc)

--------------------------------------------------------------------------
(* calculate_fsc *)

RECURSIVE FscLoop(_, _, _, _, _, _)
\* for i in range(1, D // 2): iteration i and those after it; prev_mask is
\* the bound of the boolean array of that name.  Each iteration yields its
\* shell and the value it appends to fsc.
FscLoop(i, D, dists2, F1, F2, prev_mask) ==
    IF i >= D \div 2 THEN <<>>
    ELSE LET mask == i
             shell == Shell(D, dists2, mask, prev_mask)
         IN  <<[shell |-> shell, p |-> ShellCorr(F1, F2, shell)]>>
             \o FscLoop(i + 1, D, dists2, F1, F2, mask)

\* fsc_vals.to_csv(out_file, sep=" ", header=True, index=False)
ToCsvNoIndex(fsc_vals) ==
    [header |-> <<"pixres", "fsc">>,
     rows |-> [r \in 1..Rows(fsc_vals) |-> <<fsc_vals.pixres[r], fsc_vals.fsc[r]>>]]

(* The result: raised, the exception ("" when the call returns); vol1 and  *)
(* vol2, the caller's arrays after the call; ret, the returned table;      *)
(* written, what was saved to out_file (None when nothing was); shells,    *)
(* the value of shell in each iteration of the loop.                       *)
calculate_fsc(vol1, vol2, initial_mask, out_file) ==
    LET m1 == IF IsNone(initial_mask) THEN vol1 ELSE MaskedInPlace(vol1, initial_mask)
        m2 == IF IsNone(initial_mask) THEN vol2 ELSE MaskedInPlace(vol2, initial_mask)
        D == m1.D
        dists == get_fftn_dists(D)
    IN  IF ~dists.assert_ok
        THEN [raised |-> "AssertionError", vol1 |-> m1, vol2 |-> m2,
              ret |-> None, written |-> None, shells |-> <<>>]
        ELSE LET F1 == fftn_center(m1)
                 F2 == fftn_center(m2)
                 loop == FscLoop(1, D, dists.dists2, F1, F2, 0)
                 fsc == <<One>> \o [n \in 1..Len(loop) |-> loop[n].p]
                 fsc_vals == DataFrame(Pixres(D), fsc)
             IN  [raised |-> "", vol1 |-> m1, vol2 |-> m2, ret |-> fsc_vals,
                  written |-> IF IsNone(out_file) THEN None ELSE ToCsvNoIndex(fsc_vals),
                  shells |-> [n \in 1..Len(loop) |-> loop[n].shell]]

--------------------------------------------------------------------------
(* get_fsc_thresholds *)

\* fsc_vals.pixres[fsc_vals.fsc >= c].min(), c = num/den
MinPixresAtLeast(fsc_vals, num, den) ==
    LET rows == {r \in 1..Rows(fsc_vals) : FloatGeq(fsc_vals.fsc[r], num, den)}
        best == CHOOSE r \in rows :
                   \A q \in rows : RatLeq(fsc_vals.pixres[r], fsc_vals.pixres[q])
    IN  fsc_vals.pixres[best]

\* fsc_vals.pixres[fsc_vals.fsc >= c].max(), c = num/den
MaxPixresAtLeast(fsc_vals, num, den) ==
    LET rows == {r \in 1..Rows(fsc_vals) : FloatGeq(fsc_vals.fsc[r], num, den)}
        best == CHOOSE r \in rows :
                   \A q \in rows : RatLeq(fsc_vals.pixres[q], fsc_vals.pixres[r])
    IN  fsc_vals.pixres[best]

\* a test that lets the DC entry count
AnyAtLeast(fsc_vals, num, den) ==
    \E r \in 1..Rows(fsc_vals) : FloatGeq(fsc_vals.fsc[r], num, den)

\* ((fsc_vals.pixres > 0) & (fsc_vals.fsc >= c)).any()
AnyNonDcAtLeast(fsc_vals, num, den) ==
    \E r \in 1..Rows(fsc_vals) :
        /\ RatLt(Rat(0, 1), fsc_vals.pixres[r])
        /\ FloatGeq(fsc_vals.fsc[r], num, den)

\* thresholds that come back multiplied by apix
ThresholdsTimesApix(fsc_vals, apix, verbose) ==
    LET times(t) == IF IsNone(t) THEN None ELSE Rat(t.num * apix.num, t.den * apix.den)
        res_05 == IF AnyNonDcAtLeast(fsc_vals, 1, 2)
                  THEN MaxPixresAtLeast(fsc_vals, 1, 2) ELSE None
        res_143 == IF AnyNonDcAtLeast(fsc_vals, 143, 1000)
                   THEN MaxPixresAtLeast(fsc_vals, 143, 1000) ELSE None
    IN  [res_05 |-> times(res_05), res_143 |-> times(res_143), log |-> <<>>]

(* The pair (res_05, res_143) and the log lines of a verbose call.         *)
get_fsc_thresholds(fsc_vals, apix, verbose) ==
    LET res_05 == IF AnyNonDcAtLeast(fsc_vals, 1, 2)
                  THEN MaxPixresAtLeast(fsc_vals, 1, 2) ELSE None
        res_143 == IF AnyNonDcAtLeast(fsc_vals, 143, 1000)
                   THEN MaxPixresAtLeast(fsc_vals, 143, 1000) ELSE None
    IN  [res_05 |-> res_05, res_143 |-> res_143,
         log |-> IF verbose
                 THEN << IF IsNone(res_05) THEN "warning: res @ FSC=0.5: N/A"
                                           ELSE "info: res @ FSC=0.5",
                         IF IsNone(res_143) THEN "warning: res @ FSC=0.143: N/A"
                                            ELSE "info: res @ FSC=0.143" >>
                 ELSE <<>>]

--------------------------------------------------------------------------
(* correct_fsc *)

\* the outcomes of random.shuffle the model draws from: 0 .. MaxPerm
MaxPerm == 1

\* one shuffle step is a rotation of the list by a multiple of RotStride
RotStride == 7

(* The permutation of 1 .. n that outcome kind applies: 0 leaves the list  *)
(* as it is, 1 reverses it, k >= 2 rotates it by (k - 1) * RotStride.      *)
PermOf(kind, n) ==
    [j \in 1..n |-> IF kind = 0 THEN j
                    ELSE IF kind = 1 THEN n + 1 - j
                    ELSE ((j - 1 + (kind - 1) * RotStride) % n) + 1]

\* random.shuffle(lst) with outcome kind, for a list of n items: the list afterwards
Shuffled(lst, n, kind) == [j \in 1..n |-> lst[PermOf(kind, n)[j]]]

\* the row-major position (1-based) of a voxel
Lin(D, x) == x[1] * D * D + x[2] * D + x[3] + 1

\* vol[phase_mask] = vol[phase_mask][phase_inds]; region lists the voxels of
\* phase_mask in row-major order, outside the other voxels
Scrambled(F, D, region, outside, phase_inds) ==
    [k \in Vox(D) |->
       IF \E j \in 1..Len(outside) : outside[j] = k THEN F[k]
       ELSE LET before == {j \in 1..Len(outside) : Lin(D, outside[j]) < Lin(D, k)}
                place == Lin(D, k) - Cardinality(before)
            IN  F[region[phase_inds[place]]]]

\* a rescaling that is not clipped
Unclipped(x) == x

\* np.clip(x, 0, 1.0) of a non-NaN fixed-point value
Clip01(x) == IF x < 0 THEN 0 ELSE IF x > FScale THEN FScale ELSE x

\* the rewritten value of one shell: fsc_i the input value, p the
\* correlation of the scrambled volumes
Normalized(fsc_i, p) ==
    IF ~p.nan /\ p.fx = FScale THEN Float(0)
    ELSE IF ~p.nan
         THEN (IF fsc_i.nan THEN NaN
               ELSE Float(Clip01(TruncDiv(FScale * (fsc_i.fx - p.fx), FScale - p.fx))))
         ELSE fsc_i

\* a loop that also recomputes shell phase_D
RecomputedFromPhaseD(i, phase_D) == i >= phase_D

\* if i > phase_D
Recomputed(i, phase_D) == i > phase_D

RECURSIVE CorrectLoop(_, _, _, _, _, _, _, _, _, _)
(* for i in range(1, D // 2): iteration i and those after it.  fsc is the  *)
(* list of that name; ps records the value of p in each iteration that     *)
(* computes it (None where it is not computed), shells the value of shell  *)
(* in each iteration.                                                      *)
CorrectLoop(i, D, dists2, S1, S2, phase_D, prev_mask, fsc, ps, shells) ==
    IF i >= D \div 2 THEN [fsc |-> fsc, p |-> ps, shells |-> shells]
    ELSE LET mask == i
             shell == Shell(D, dists2, mask, prev_mask)
             p == IF Recomputed(i, phase_D) THEN ShellCorr(S1, S2, shell) ELSE None
             fsc_i == IF Recomputed(i, phase_D)
                      THEN Normalized(fsc[i + 1], p)
                      ELSE fsc[i + 1]
         IN  CorrectLoop(i + 1, D, dists2, S1, S2, phase_D, mask,
                         [fsc EXCEPT ![i + 1] = fsc_i], [ps EXCEPT ![i + 1] = p],
                         Append(shells, shell))

\* a length check against (D // 2) + 1, the number the error message prints
LengthMismatchPlusOne(n, D) == n # (D \div 2) + 1

\* if fsc_vals.shape[0] != (D // 2), for a table of n rows
LengthMismatch(n, D) == n # D \div 2

\* phase_D = int(randomization_threshold * vol1.shape[0])
PhaseD(randomization_threshold, D) ==
    TruncDiv(randomization_threshold.num * D, randomization_threshold.den)

(* draws are the outcomes of the two calls of random.shuffle, which read    *)
(* the process-wide generator.  The result: raised; vol1, vol2, the        *)
(* caller's arrays after the call; ret, the corrected table; drawn, the    *)
(* outcomes consumed; p_random, the value of p in each iteration of the    *)
(* loop that computes it; shells, the value of shell in each iteration;    *)
(* region, the voxels of phase_mask in row-major order; phase_inds, the    *)
(* list of that name after each shuffle; before and after, the two         *)
(* transforms before and after the assignments through phase_mask.         *)
correct_fsc(fsc_vals, vol1, vol2, randomization_threshold, initial_mask, draws) ==
    LET m1 == IF IsNone(initial_mask) THEN vol1 ELSE MaskedInPlace(vol1, initial_mask)
        m2 == IF IsNone(initial_mask) THEN vol2 ELSE MaskedInPlace(vol2, initial_mask)
        D == m1.D
    IN  IF LengthMismatch(Rows(fsc_vals), D)
        THEN [raised |-> "ValueError", vol1 |-> m1, vol2 |-> m2, ret |-> None,
              drawn |-> <<>>, p_random |-> <<>>, shells |-> <<>>, region |-> <<>>,
              phase_inds |-> <<>>, before |-> <<>>, after |-> <<>>]
        ELSE
        LET dists == get_fftn_dists(D)
        IN  IF ~dists.assert_ok
            THEN [raised |-> "AssertionError", vol1 |-> m1, vol2 |-> m2,
                  ret |-> None, drawn |-> <<>>, p_random |-> <<>>, shells |-> <<>>,
                  region |-> <<>>, phase_inds |-> <<>>, before |-> <<>>,
                  after |-> <<>>]
            ELSE
            LET F1 == fftn_center(m1)
                F2 == fftn_center(m2)
                phase_D == PhaseD(randomization_threshold, D)
                region == SelectSeq(VoxSeq(D), LAMBDA x : DistGt(dists.dists2[x], phase_D))
                n == Len(region)
                inds0 == [j \in 1..n |-> j]
                inds1 == Shuffled(inds0, n, draws[1])
                inds2 == Shuffled(inds1, n, draws[2])
                outside == SelectSeq(VoxSeq(D), LAMBDA x : ~DistGt(dists.dists2[x], phase_D))
                S1 == Scrambled(F1, D, region, outside, inds1)
                S2 == Scrambled(F2, D, region, outside, inds2)
                loop == CorrectLoop(1, D, dists.dists2, S1, S2, phase_D, 0,
                                    [r \in 1..Rows(fsc_vals) |-> fsc_vals.fsc[r]],
                                    [r \in 1..Rows(fsc_vals) |-> None], <<>>)
            IN  [raised |-> "", vol1 |-> m1, vol2 |-> m2,
                 ret |-> DataFrame(Pixres(D), loop.fsc),
                 drawn |-> <<draws[1], draws[2]>>, p_random |-> loop.p,
                 shells |-> loop.shells, region |-> region,
                 phase_inds |-> <<inds1, inds2>>,
                 before |-> <<F1, F2>>, after |-> <<S1, S2>>]

--------------------------------------------------------------------------
(* State *)

VARIABLES
    fn,       \* the function the behaviour calls
    pc,       \* the position reached in it
    vol1,     \* the first volume array the caller holds
    vol2,     \* the second volume array the caller holds
    orig1,    \* vol1 as the caller passed it (history)
    orig2,    \* vol2 as the caller passed it (history)
    curve,    \* the FSC table the caller holds
    arg,      \* the arguments of the call
    res,      \* what the finished call produced
    rng,      \* the outcomes drawn so far from the process-wide generator
    cs,       \* the arguments and locals of calculate_cryosparc_fscs
    mn,       \* the locals of main
    calls,    \* the functions called so far, in order
    plots,    \* the calls of create_fsc_plot made so far
    files,    \* the files written so far
    log       \* the records logged so far

vars == <<fn, pc, vol1, vol2, orig1, orig2, curve, arg, res, rng,
          cs, mn, calls, plots, files, log>>

\* the state of the orchestrator and of the command, and their effects
frames == <<cs, mn, calls, plots, files, log>>

\* no orchestrator or command is running and nothing has been emitted
NoFrames ==
    /\ cs = None
    /\ mn = None
    /\ calls = <<>>
    /\ plots = <<>>
    /\ files = <<>>
    /\ log = <<>>

--------------------------------------------------------------------------
(* Inputs *)

\* the side lengths D
Sides == {2, 4, 6}

\* the voxel diagonally next to the centre
Beside(D) == <<(D \div 2) - 1, (D \div 2) - 1, (D \div 2) - 1>>

\* a volume with value a at the centre voxel and b beside it
Vol(D, a, b) == MkVolume(D, 1, (Center(D) :> a) @@ (Beside(D) :> b))

Volumes(D) == {Vol(D, a, b) : a \in (-MaxVal)..MaxVal, b \in (-MaxVal)..MaxVal}

\* the volumes with 1 at the centre
UnitVolumes(D) == {Vol(D, 1, b) : b \in (-MaxVal)..MaxVal}

\* 1 at the centre, lvl / MaskDen on the 26 voxels around it, 0 beyond
SoftMask(lvl) == [core |-> 0, edge |-> 3, lvl |-> lvl]

\* 1 at the centre, 0 elsewhere
HardMask == [core |-> 0, edge |-> 0, lvl |-> 0]

InputMasks == {SoftMask(l) : l \in 1..(MaskDen - 1)} \cup {HardMask}

\* the least fixed-point values that reach the cutoffs 0.143 and 0.5
Least143 == (143 * FScale + 999) \div 1000

LeastHalf == (FScale + 1) \div 2

\* the outcomes of one correct_fsc call's two shuffles
Draws == {<<k1, k2>> : k1 \in 0..MaxPerm, k2 \in 0..MaxPerm}

\* a file path: os.path.splitext(p) is (stem, ext)
Path(stem, ext) == [stem |-> stem, ext |-> ext]

--------------------------------------------------------------------------
(* calculate_fsc, called on its own *)

\* the calls made: with each mask and no file, and with a file and no mask
CalcCalls ==
    {[initial_mask |-> m, out_file |-> None] : m \in InputMasks \cup {None}}
    \cup {[initial_mask |-> None, out_file |-> Path("fsc", ".txt")]}

InitCalc ==
    /\ fn = "calculate_fsc"
    /\ pc = "ready"
    /\ \E D \in Sides : vol1 \in UnitVolumes(D) /\ vol2 \in Volumes(D)
    /\ orig1 = vol1
    /\ orig2 = vol2
    /\ curve = None
    /\ arg = None
    /\ res = None
    /\ rng = <<>>
    /\ NoFrames

CallCalculateFsc ==
    /\ fn = "calculate_fsc"
    /\ pc = "ready"
    /\ \E call \in CalcCalls :
          LET initial_mask == call.initial_mask
              out_file == call.out_file
              r == calculate_fsc(vol1, vol2, initial_mask, out_file)
          IN  /\ arg' = call
              /\ res' = r
              /\ vol1' = r.vol1
              /\ vol2' = r.vol2
              /\ curve' = r.ret
    /\ pc' = "returned"
    /\ UNCHANGED <<fn, orig1, orig2, rng, frames>>

NextCalc == CallCalculateFsc

SpecCalc == InitCalc /\ [][NextCalc]_vars

--------------------------------------------------------------------------
(* correct_fsc, called on its own *)

\* correlation values a caller's table may hold: in and out of [0, 1], NaN
CurveVals ==
    << One, NaN, Float(LeastHalf), Float(-(FScale \div 4)),
       Float(FScale + FScale \div 2), Float(0), Float(FScale \div 4) >>

\* the table of n rows on the axis of side length D whose correlations are
\* CurveVals read cyclically from position c
CurveFrom(D, n, c) ==
    DataFrame([r \in 1..n |-> Rat(r - 1, D)],
              [r \in 1..n |-> CurveVals[((c + r - 1) % Len(CurveVals)) + 1]])

\* tables of the right length D // 2, one a row too long and one a row short
InputCurves(D) ==
    {CurveFrom(D, D \div 2, c) : c \in {0, 2, 3, 5}}
    \cup {CurveFrom(D, (D \div 2) + 1, 0), CurveFrom(D, (D \div 2) - 1, 0)}

\* randomization thresholds: phase_D is 0, 1 and 2 at D = 6
Thresholds == {Rat(0, 1), Rat(1, 6), Rat(1, 3)}

InitCorrect ==
    /\ fn = "correct_fsc"
    /\ pc = "ready"
    /\ \E D \in Sides :
          /\ vol1 = Vol(D, 1, 1)
          /\ vol2 \in UnitVolumes(D) \cup {Vol(D, 0, 0), Vol(D, -1, -1)}
          /\ curve \in InputCurves(D)
    /\ orig1 = vol1
    /\ orig2 = vol2
    /\ arg = None
    /\ res = None
    /\ rng = <<>>
    /\ NoFrames

CallCorrectFsc ==
    /\ fn = "correct_fsc"
    /\ pc = "ready"
    /\ \E randomization_threshold \in Thresholds,
          initial_mask \in {None, SoftMask(1)},
          draws \in Draws :
          LET r == correct_fsc(curve, vol1, vol2, randomization_threshold,
                               initial_mask, draws)
          IN  /\ arg' = [fsc_vals |-> curve,
                         randomization_threshold |-> randomization_threshold,
                         initial_mask |-> initial_mask]
              /\ res' = r
              /\ vol1' = r.vol1
              /\ vol2' = r.vol2
              /\ rng' = rng \o r.drawn
    /\ pc' = "returned"
    /\ UNCHANGED <<fn, orig1, orig2, curve, frames>>

NextCorrect == CallCorrectFsc

SpecCorrect == InitCorrect /\ [][NextCorrect]_vars

--------------------------------------------------------------------------
(* correct_fsc, run a second time from the same generator state *)

(* The caller restores the generator to the state the first run started    *)
(* from and calls correct_fsc with arguments equal to the first run's: the *)
(* table it holds, arrays equal to those it passed, the same mask and      *)
(* threshold.  From that state the shuffles have the outcomes they had in  *)
(* the first run.                                                          *)
CallCorrectFscAgain ==
    /\ fn = "correct_fsc"
    /\ pc \in {"returned", "again"}
    /\ LET seeded == SubSeq(rng, 1, Len(rng) - Len(res.drawn))
           r == correct_fsc(curve, orig1, orig2, arg.randomization_threshold,
                            arg.initial_mask, res.drawn)
       IN  /\ res' = r
           /\ vol1' = r.vol1
           /\ vol2' = r.vol2
           /\ rng' = seeded \o r.drawn
    /\ pc' = "again"
    /\ UNCHANGED <<fn, orig1, orig2, curve, arg, frames>>

InitTwice ==
    /\ fn = "correct_fsc"
    /\ pc = "ready"
    /\ \E D \in Sides :
          /\ vol1 = Vol(D, 1, 1)
          /\ vol2 \in {Vol(D, 1, 1), Vol(D, 0, 0)}
          /\ curve \in {CurveFrom(D, D \div 2, 0), CurveFrom(D, (D \div 2) + 1, 0)}
    /\ orig1 = vol1
    /\ orig2 = vol2
    /\ arg = None
    /\ res = None
    /\ rng = <<>>
    /\ NoFrames

NextTwice == CallCorrectFsc \/ CallCorrectFscAgain

SpecTwice == InitTwice /\ [][NextTwice]_vars

--------------------------------------------------------------------------
(* get_fsc_thresholds, called on its own *)

\* the longest table
MaxRows == 3

ThreshVals ==
    { NaN, Float(0), Float(Least143 - 1), Float(Least143),
      Float(LeastHalf), One }

\* every table of n rows on the axis of side length 2 * n
Tables(n) ==
    {DataFrame([r \in 1..n |-> Rat(r - 1, 2 * n)], f) : f \in [1..n -> ThreshVals]}

InitThresh ==
    /\ fn = "get_fsc_thresholds"
    /\ pc = "ready"
    /\ \E n \in 1..MaxRows : curve \in Tables(n)
    /\ vol1 = None
    /\ vol2 = None
    /\ orig1 = None
    /\ orig2 = None
    /\ arg = None
    /\ res = None
    /\ rng = <<>>
    /\ NoFrames

CallGetFscThresholds ==
    /\ fn = "get_fsc_thresholds"
    /\ pc = "ready"
    /\ \E verbose \in BOOLEAN :
          /\ arg' = [fsc_vals |-> curve, apix |-> Rat(1, 1), verbose |-> verbose]
          /\ res' = get_fsc_thresholds(curve, Rat(1, 1), verbose)
    /\ pc' = "returned"
    /\ UNCHANGED <<fn, vol1, vol2, orig1, orig2, curve, rng, frames>>

\* a later call on the table the caller still holds, with any pixel size
CallGetFscThresholdsAgain ==
    /\ fn = "get_fsc_thresholds"
    /\ pc \in {"returned", "again"}
    /\ \E verbose \in BOOLEAN, apix \in {Rat(1, 1), Rat(3, 2)} :
          /\ arg' = [fsc_vals |-> curve, apix |-> apix, verbose |-> verbose]
          /\ res' = get_fsc_thresholds(curve, apix, verbose)
    /\ pc' = "again"
    /\ UNCHANGED <<fn, vol1, vol2, orig1, orig2, curve, rng, frames>>

NextThresh == CallGetFscThresholds \/ CallGetFscThresholdsAgain

SpecThresh == InitThresh /\ [][NextThresh]_vars

--------------------------------------------------------------------------
(* calculate_fsc and correct_fsc, each called on its own *)

InitFsc == InitCalc \/ InitCorrect

NextFsc == NextCalc \/ NextCorrect

SpecFsc == InitFsc /\ [][NextFsc]_vars

--------------------------------------------------------------------------
(* calculate_fsc followed by get_fsc_thresholds on its curve, as the       *)
(* two-volume pipeline computes them; the volumes include two of side 32.  *)

\* the large side length
ScenarioSide == 32

\* a volume of the large side: a at the centre, b at the voxel 8 further
\* along each axis
ScenarioVol(a, b) ==
    MkVolume(ScenarioSide, 1,
             (Center(ScenarioSide) :> a)
             @@ (<<ScenarioSide \div 2 + 8, ScenarioSide \div 2 + 8,
                   ScenarioSide \div 2 + 8>> :> b))

\* the pairs of volumes
ScenarioPairs ==
    UNION {UnitVolumes(D) \X Volumes(D) : D \in Sides}
    \cup {<<ScenarioVol(1, b), ScenarioVol(1, b)>> : b \in {-1, 1}}

InitScenario ==
    /\ fn = "pipeline"
    /\ pc = "ready"
    /\ \E pair \in ScenarioPairs :
          /\ vol1 = pair[1]
          /\ vol2 = pair[2]
    /\ orig1 = vol1
    /\ orig2 = vol2
    /\ curve = None
    /\ arg = None
    /\ res = None
    /\ rng = <<>>
    /\ NoFrames

\* fsc_vals = calculate_fsc(vol1, vol2)
ScCalculateFsc ==
    /\ fn = "pipeline"
    /\ pc = "ready"
    /\ LET r == calculate_fsc(vol1, vol2, None, None)
       IN  /\ vol1' = r.vol1
           /\ vol2' = r.vol2
           /\ curve' = r.ret
    /\ pc' = "curved"
    /\ UNCHANGED <<fn, orig1, orig2, arg, res, rng, frames>>

\* get_fsc_thresholds(fsc_vals, apix)
ScGetFscThresholds ==
    /\ fn = "pipeline"
    /\ pc = "curved"
    /\ \E apix \in {Rat(1, 1), Rat(3, 2)} :
          /\ arg' = [fsc_vals |-> curve, apix |-> apix, verbose |-> TRUE]
          /\ res' = get_fsc_thresholds(curve, apix, TRUE)
    /\ pc' = "returned"
    /\ UNCHANGED <<fn, vol1, vol2, orig1, orig2, curve, rng, frames>>

NextScenario == ScCalculateFsc \/ ScGetFscThresholds

SpecScenario == InitScenario /\ [][NextScenario]_vars

--------------------------------------------------------------------------
(* Dictionaries: lists of key-value pairs in insertion order *)

HasKey(d, k) == \E i \in 1..Len(d) : d[i].k = k

\* d[k]
Get(d, k) == d[CHOOSE i \in 1..Len(d) : d[i].k = k].v

\* d[k] = v, a new key going before the others
PutFirst(d, k, v) ==
    IF HasKey(d, k)
    THEN [i \in 1..Len(d) |-> IF d[i].k = k THEN [k |-> k, v |-> v] ELSE d[i]]
    ELSE <<[k |-> k, v |-> v]>> \o d

\* d[k] = v
Put(d, k, v) ==
    IF HasKey(d, k)
    THEN [i \in 1..Len(d) |-> IF d[i].k = k THEN [k |-> k, v |-> v] ELSE d[i]]
    ELSE Append(d, [k |-> k, v |-> v])

--------------------------------------------------------------------------
(* The collaborators of calculate_cryosparc_fscs *)

\* a mask that is 1 on the ball of radius D / 2
WideMask(D) == [core |-> (D \div 2) * (D \div 2), edge |-> (D \div 2) * (D \div 2), lvl |-> 0]

\* masking.spherical_window_mask(D=...): the arrays it may return
spherical_window_mask(D) == {WideMask(D)}

\* masking.cosine_dilation_mask(vol, dilation=, edge_dist=, apix=): the
\* arrays it may return, real-valued in [0, 1] and of the shape of vol
cosine_dilation_mask(vol, dilation, edge_dist, apix) == {WideMask(vol.D), SoftMask(1)}

\* a tuple of two integers
Tuple(a, b) == [tuple |-> <<a, b>>]

\* nothing is a tuple
IsNeverTuple(x) == FALSE

\* isinstance(x, tuple)
IsTuple(x) == "tuple" \in DOMAIN x

\* isinstance(x, (np.ndarray, torch.Tensor))
IsArray(x) == "core" \in DOMAIN x

\* a value that is neither a tuple nor an array
NotAMask == [str |-> "tight"]

\* format(x, ".2f") of the rational x >= 0: the number of hundredths,
\* rounded half to even
Fmt2(x) ==
    LET q == (100 * x.num) \div x.den
        twice == 2 * ((100 * x.num) % x.den)
    IN  IF twice > x.den \/ (twice = x.den /\ q % 2 = 1) THEN q + 1 ELSE q

\* (1 / fsc_val) * Apix
Angstroms(fsc_val, Apix) == Rat(fsc_val.den * Apix.num, fsc_val.num * Apix.den)

\* f"{mask_lbl}  ({fsc_angs[mask_lbl]:.2f}Å)"
PlotLabel(mask_lbl, angs) == [label |-> mask_lbl, hundredths |-> Fmt2(angs)]

\* fsc_vals.to_csv(out_file, sep=" ", header=True) of the combined table:
\* the index is written as a first column with an empty name
ToCsvWithIndex(table) ==
    [header |-> <<"">> \o [i \in 1..Len(table.columns) |-> table.columns[i].k],
     rows |-> [r \in 1..Len(table.index) |->
                 <<table.index[r]>> \o
                 [i \in 1..Len(table.columns) |-> table.columns[i].v[r]]]]

--------------------------------------------------------------------------
(* calculate_cryosparc_fscs *)

\* the call raises: exception e propagates to the caller
CsRaise(e) ==
    /\ pc' = "cs_returned"
    /\ res' = [raised |-> e, ret |-> None]

(* Lines 241-261: the masks dictionary.  The spherical window is built     *)
(* when none is passed; Loose is built from the full volume; Tight is      *)
(* built, taken as passed, or rejected, by the type of tight_mask.         *)
CsBuildMasks ==
    /\ pc = "cs_masks"
    /\ \E sphere \in (IF IsNone(cs.sphere_mask)
                      THEN spherical_window_mask(cs.full_vol.D)
                      ELSE {cs.sphere_mask}),
          loose \in cosine_dilation_mask(cs.full_vol, cs.loose_mask.tuple[1],
                                         cs.loose_mask.tuple[2], cs.Apix) :
          LET masks == << [k |-> "No Mask", v |-> None],
                          [k |-> "Spherical", v |-> sphere],
                          [k |-> "Loose", v |-> loose] >>
              called == calls
                        \o (IF IsNone(cs.sphere_mask)
                            THEN <<"spherical_window_mask">> ELSE <<>>)
                        \o <<"cosine_dilation_mask">>
          IN  \/ /\ IsTuple(cs.tight_mask)
                 /\ \E tight \in cosine_dilation_mask(cs.full_vol, cs.tight_mask.tuple[1],
                                                     cs.tight_mask.tuple[2], cs.Apix) :
                       cs' = [cs EXCEPT !.masks = Put(masks, "Tight", tight)]
                 /\ calls' = Append(called, "cosine_dilation_mask")
                 /\ pc' = "cs_fsc"
                 /\ res' = res
              \/ /\ ~IsTuple(cs.tight_mask)
                 /\ IsArray(cs.tight_mask)
                 /\ cs' = [cs EXCEPT !.masks = Put(masks, "Tight", cs.tight_mask)]
                 /\ calls' = called
                 /\ pc' = "cs_fsc"
                 /\ res' = res
              \/ /\ ~IsTuple(cs.tight_mask)
                 /\ ~IsArray(cs.tight_mask)
                 /\ cs' = [cs EXCEPT !.masks = masks]
                 /\ calls' = called
                 /\ CsRaise("TypeError")
    /\ UNCHANGED <<fn, vol1, vol2, orig1, orig2, curve, arg, rng, mn, plots, files, log>>

(* Lines 263-266, one item of masks.items() at a time: the curve of the    *)
(* next label, computed on the arrays half_vol1 and half_vol2 as they are. *)
CsFsc ==
    /\ pc = "cs_fsc"
    /\ LET n == Len(cs.fsc_vals) + 1
           r == calculate_fsc(vol1, vol2, cs.masks[n].v, None)
       IN  /\ vol1' = r.vol1
           /\ vol2' = r.vol2
           /\ calls' = Append(calls, "calculate_fsc")
           /\ IF r.raised # ""
              THEN cs' = cs /\ CsRaise(r.raised)
              ELSE /\ cs' = [cs EXCEPT !.fsc_vals = Put(@, cs.masks[n].k, r.ret)]
                   /\ pc' = IF n = Len(cs.masks) THEN "cs_thresh" ELSE "cs_fsc"
                   /\ res' = res
    /\ UNCHANGED <<fn, orig1, orig2, curve, arg, rng, mn, plots, files, log>>

\* lines 267-270: the 0.143 threshold of every curve
CsThresholds ==
    /\ pc = "cs_thresh"
    /\ cs' = [cs EXCEPT !.fsc_thresh =
                [i \in 1..Len(cs.fsc_vals) |->
                    [k |-> cs.fsc_vals[i].k,
                     v |-> get_fsc_thresholds(cs.fsc_vals[i].v, cs.Apix, FALSE).res_143]]]
    /\ calls' = calls \o [i \in 1..Len(cs.fsc_vals) |-> "get_fsc_thresholds"]
    /\ pc' = "cs_correct"
    /\ UNCHANGED <<fn, vol1, vol2, orig1, orig2, curve, arg, res, rng, mn, plots, files, log>>

\* 0.5 * fsc_thresh["Tight"]
HalfOf(t) == Rat(t.num, 2 * t.den)

\* 0.75 * fsc_thresh["Tight"]
ThreeQuarters(t) == Rat(3 * t.num, 4 * t.den)

(* Lines 272-285: the Corrected curve.  correct_fsc gets the arrays        *)
(* half_vol1 and half_vol2 as they are and draws two shuffles.             *)
CsCorrect ==
    /\ pc = "cs_correct"
    /\ \/ /\ ~IsNone(Get(cs.fsc_thresh, "Tight"))
          /\ \E draws \in Draws :
                LET r == correct_fsc(Get(cs.fsc_vals, "Tight"), vol1, vol2,
                                     ThreeQuarters(Get(cs.fsc_thresh, "Tight")),
                                     Get(cs.masks, "Tight"), draws)
                IN  /\ vol1' = r.vol1
                    /\ vol2' = r.vol2
                    /\ rng' = rng \o r.drawn
                    /\ arg' = [fsc_vals |-> Get(cs.fsc_vals, "Tight"),
                               randomization_threshold |->
                                   ThreeQuarters(Get(cs.fsc_thresh, "Tight")),
                               initial_mask |-> Get(cs.masks, "Tight")]
                    /\ IF r.raised # ""
                       THEN cs' = cs /\ calls' = Append(calls, "correct_fsc")
                            /\ CsRaise(r.raised)
                       ELSE /\ cs' = [cs EXCEPT
                                 !.fsc_vals = Put(@, "Corrected", r.ret),
                                 !.fsc_thresh = Put(@, "Corrected",
                                     get_fsc_thresholds(r.ret, cs.Apix, FALSE).res_143)]
                            /\ calls' = calls \o <<"correct_fsc", "get_fsc_thresholds">>
                            /\ pc' = "cs_report"
                            /\ res' = res
       \/ /\ IsNone(Get(cs.fsc_thresh, "Tight"))
          /\ cs' = [cs EXCEPT
                      !.fsc_vals = Put(@, "Corrected", Get(cs.fsc_vals, "Tight")),
                      !.fsc_thresh = Put(@, "Corrected", Get(cs.fsc_thresh, "Tight"))]
          /\ pc' = "cs_report"
          /\ UNCHANGED <<vol1, vol2, rng, arg, calls, res>>
    /\ UNCHANGED <<fn, orig1, orig2, curve, mn, plots, files, log>>

\* line 288: the thresholds of the Corrected curve are logged
CsReport ==
    /\ pc = "cs_report"
    /\ log' = log \o get_fsc_thresholds(Get(cs.fsc_vals, "Corrected"), cs.Apix, TRUE).log
    /\ calls' = Append(calls, "get_fsc_thresholds")
    /\ pc' = "cs_plot"
    /\ UNCHANGED <<fn, vol1, vol2, orig1, orig2, curve, arg, res, rng, cs, mn, plots, files>>

(* Lines 290-298: with a plot file, every threshold is turned into         *)
(* Angstroms, (1 / fsc_val) * Apix, which raises TypeError on None; then   *)
(* the labelled curves go to create_fsc_plot.                              *)
CsPlot ==
    /\ pc = "cs_plot"
    /\ IF IsNone(cs.plot_file)
       THEN pc' = "cs_table" /\ UNCHANGED <<res, plots, calls>>
       ELSE IF \E i \in 1..Len(cs.fsc_thresh) : IsNone(cs.fsc_thresh[i].v)
       THEN CsRaise("TypeError") /\ UNCHANGED <<plots, calls>>
       ELSE /\ plots' = Append(plots,
                  [fsc_vals |-> [i \in 1..Len(cs.fsc_vals) |->
                                   [k |-> PlotLabel(cs.fsc_vals[i].k,
                                              Angstroms(Get(cs.fsc_thresh, cs.fsc_vals[i].k),
                                                        cs.Apix)),
                                    v |-> cs.fsc_vals[i].v]],
                   outfile |-> cs.plot_file,
                   Apix |-> cs.Apix])
            /\ calls' = Append(calls, "create_fsc_plot")
            /\ pc' = "cs_table"
            /\ res' = res
    /\ UNCHANGED <<fn, vol1, vol2, orig1, orig2, curve, arg, rng, cs, mn, files, log>>

(* Lines 300-311: the shared axis is checked, the table is assembled,      *)
(* saved when out_file is given, and returned.                             *)
CsTable ==
    /\ pc = "cs_table"
    /\ LET pixres_index == {cs.fsc_vals[i].v.pixres : i \in 1..Len(cs.fsc_vals)}
       IN  IF Cardinality(pixres_index) # 1
           THEN CsRaise("AssertionError") /\ UNCHANGED <<files, log>>
           ELSE LET table ==
                      [index |-> CHOOSE ix \in pixres_index : TRUE,
                       columns |-> [i \in 1..Len(cs.fsc_vals) |->
                                      [k |-> cs.fsc_vals[i].k, v |-> cs.fsc_vals[i].v.fsc]]]
                IN  /\ res' = [raised |-> "", ret |-> table]
                    /\ pc' = "cs_returned"
                    /\ IF IsNone(cs.out_file)
                       THEN UNCHANGED <<files, log>>
                       ELSE /\ files' = Append(files, [path |-> cs.out_file,
                                                       content |-> ToCsvWithIndex(table)])
                            /\ log' = Append(log, "info: Saving FSC values")
    /\ UNCHANGED <<fn, vol1, vol2, orig1, orig2, curve, arg, rng, cs, mn, calls, plots>>

\* the steps of calculate_cryosparc_fscs
CsStep == CsBuildMasks \/ CsFsc \/ CsThresholds \/ CsCorrect \/ CsReport \/ CsPlot \/ CsTable

\* the side lengths the orchestrator is called with
CryoSides == {4, 6}

\* destinations and pixel sizes of a call
CryoOutputs ==
    { [out_file |-> None, plot_file |-> None, Apix |-> Rat(1, 1)],
      [out_file |-> Path("fsc", ".txt"), plot_file |-> None, Apix |-> Rat(3, 2)],
      [out_file |-> None, plot_file |-> Path("fsc", ".png"), Apix |-> Rat(3, 2)],
      [out_file |-> Path("fsc", ".txt"), plot_file |-> Path("fsc", ".png"), Apix |-> Rat(1, 1)] }

\* the second half-maps: equal to the first, differing beside the centre,
\* empty, and the negative of the first
CryoHalves(D) == {Vol(D, 1, 1), Vol(D, 1, -1), Vol(D, 0, 0), Vol(D, -1, -1)}

\* the frame of a call with its locals still empty
CsFrame(full_vol, sphere_mask, loose_mask, tight_mask, Apix, out_file, plot_file) ==
    [full_vol |-> full_vol, sphere_mask |-> sphere_mask, loose_mask |-> loose_mask,
     tight_mask |-> tight_mask, Apix |-> Apix, out_file |-> out_file,
     plot_file |-> plot_file, masks |-> <<>>, fsc_vals |-> <<>>, fsc_thresh |-> <<>>]

InitCryo ==
    /\ fn = "calculate_cryosparc_fscs"
    /\ pc = "cs_masks"
    /\ \E D \in CryoSides :
          /\ vol1 = Vol(D, 1, 1)
          /\ vol2 \in CryoHalves(D)
          /\ \E tight_mask \in {Tuple(6, 6), HardMask, NotAMask}, o \in CryoOutputs :
                cs = CsFrame(Vol(D, 1, 1), None, Tuple(25, 15), tight_mask,
                             o.Apix, o.out_file, o.plot_file)
    /\ orig1 = vol1
    /\ orig2 = vol2
    /\ curve = None
    /\ arg = None
    /\ res = None
    /\ rng = <<>>
    /\ mn = None
    /\ calls = <<>>
    /\ plots = <<>>
    /\ files = <<>>
    /\ log = <<>>

NextCryo == CsStep

SpecCryo == InitCryo /\ [][NextCryo]_vars

--------------------------------------------------------------------------
(* main *)

\* the flag value of `--plot` given without a file name (const=True)
True == [bool |-> TRUE]

\* isinstance(x, bool)
IsBool(x) == "bool" \in DOMAIN x

\* the truth value of an optional number: None and 0.0 are false
TruthyNumber(x) == ~IsNone(x) /\ x.num # 0

(* Binding the arguments of a call to the parameters of a def: TypeError   *)
(* when there are more positional arguments than parameters, when a        *)
(* keyword names no parameter or one already bound by position, or when a  *)
(* parameter without default is left unbound.  positional is a list,       *)
(* keywords and defaults are dictionaries.                                 *)
Bind(params, defaults, positional, keywords) ==
    LET n == Len(positional)
        multiple == \E i \in 1..Len(params) : i <= n /\ HasKey(keywords, params[i])
        unexpected == \E j \in 1..Len(keywords) :
                         \A i \in 1..Len(params) : params[i] # keywords[j].k
        missing == \E i \in 1..Len(params) :
                      i > n /\ ~HasKey(keywords, params[i]) /\ ~HasKey(defaults, params[i])
    IN  IF n > Len(params) \/ multiple \/ unexpected \/ missing
        THEN [raised |-> "TypeError", bound |-> <<>>]
        ELSE [raised |-> "",
              bound |-> [i \in 1..Len(params) |->
                           [k |-> params[i],
                            v |-> IF i <= n THEN positional[i]
                                  ELSE IF HasKey(keywords, params[i])
                                  THEN Get(keywords, params[i])
                                  ELSE Get(defaults, params[i])]]]

\* def calculate_fsc(vol1, vol2, initial_mask=None, out_file=None)
CalculateFscParams == <<"vol1", "vol2", "initial_mask", "out_file">>

CalculateFscDefaults == <<[k |-> "initial_mask", v |-> None], [k |-> "out_file", v |-> None]>>

\* n / d rounded to the nearest integer, halves to the even one (d > 0)
RoundDiv(n, d) ==
    LET q == Abs(n) \div d
        twice == 2 * (Abs(n) % d)
    IN  Sign(n) * (IF twice > d \/ (twice = d /\ q % 2 = 1) THEN q + 1 ELSE q)

\* round(4) of a correlation value: the number of ten-thousandths
Round4Float(f) ==
    IF f.nan THEN [nan |-> TRUE, e4 |-> 0]
    ELSE [nan |-> FALSE, e4 |-> RoundDiv(f.fx * 10000, FScale)]

\* round(4) of a pixres value
Round4Rat(x) == [nan |-> FALSE, e4 |-> RoundDiv(x.num * 10000, x.den)]

\* fsc_vals.round(4).to_csv(sep="\t", index=False) of a two-column table
ToCsvRoundedNoIndex(fsc_vals) ==
    [header |-> <<"pixres", "fsc">>,
     rows |-> [r \in 1..Rows(fsc_vals) |->
                 <<Round4Rat(fsc_vals.pixres[r]), Round4Float(fsc_vals.fsc[r])>>]]

\* fsc_vals.round(4).to_csv(sep="\t", index=False) of the combined table:
\* the labelled columns, without the index
ToCsvRoundedColumns(table) ==
    [header |-> [i \in 1..Len(table.columns) |-> table.columns[i].k],
     rows |-> [r \in 1..Len(table.index) |->
                 [i \in 1..Len(table.columns) |-> Round4Float(table.columns[i].v[r])]]]

\* ImageSource.from_file(vol_file): the images and the A/px of the header
ImageSource_from_file(disk, vol_file) == Get(disk, vol_file)

\* parse_mrc(args.mask)[0]: the array in the mask file
parse_mrc(disk, mask_file) == Get(disk, mask_file.stem)

\* main raises: exception e ends the program
MainRaise(e) ==
    /\ pc' = "m_raised"
    /\ res' = [raised |-> e, ret |-> None]

\* a count below two
CountBelowTwo(n) == n < 2

\* len(args.volumes) not in {2, 3}
WrongCount(n) == n \notin {2, 3}

\* lines 317-321: two or three volumes
MainCount ==
    /\ fn = "main"
    /\ pc = "m_count"
    /\ IF WrongCount(Len(mn.args.volumes))
       THEN MainRaise("ValueError")
       ELSE pc' = "m_load" /\ res' = res
    /\ UNCHANGED <<fn, vol1, vol2, orig1, orig2, curve, arg, rng, cs, mn, calls, plots,
                   files, log>>

\* lines 322-323: the volumes and the mask are read
MainLoad ==
    /\ fn = "main"
    /\ pc = "m_load"
    /\ mn' = [mn EXCEPT
                !.volumes = [i \in 1..Len(mn.args.volumes) |->
                               ImageSource_from_file(mn.disk, mn.args.volumes[i])],
                !.mask = IF ~IsNone(mn.args.mask)
                         THEN parse_mrc(mn.disk, mn.args.mask) ELSE None]
    /\ calls' = calls \o [i \in 1..Len(mn.args.volumes) |-> "ImageSource.from_file"]
                      \o (IF ~IsNone(mn.args.mask) THEN <<"parse_mrc">> ELSE <<>>)
    /\ pc' = "m_apix"
    /\ UNCHANGED <<fn, vol1, vol2, orig1, orig2, curve, arg, res, rng, cs, plots, files,
                   log>>

\* the pixel size 2.0
ApixOfTwo == Rat(2, 1)

\* apix = 1.0, when no volume carries a pixel size
DefaultApix == Rat(1, 1)

(* Lines 325-335: `if args.Apix:` takes a given nonzero value; otherwise   *)
(* the A/px values of the volume headers must not differ, and 1.0 is used  *)
(* when no header has one.                                                 *)
MainApix ==
    /\ fn = "main"
    /\ pc = "m_apix"
    /\ LET vol_apixs == {mn.volumes[i].apix : i \in 1..Len(mn.volumes)} \ {None}
       IN  IF TruthyNumber(mn.args.Apix)
           THEN mn' = [mn EXCEPT !.apix = mn.args.Apix] /\ pc' = "m_plot" /\ res' = res
           ELSE IF Cardinality(vol_apixs) = 0
           THEN mn' = [mn EXCEPT !.apix = DefaultApix] /\ pc' = "m_plot" /\ res' = res
           ELSE IF Cardinality(vol_apixs) = 1
           THEN /\ mn' = [mn EXCEPT !.apix = CHOOSE a \in vol_apixs : TRUE]
                /\ pc' = "m_plot" /\ res' = res
           ELSE mn' = mn /\ MainRaise("ValueError")
    /\ UNCHANGED <<fn, vol1, vol2, orig1, orig2, curve, arg, rng, cs, calls, plots, files,
                   log>>

\* lines 337-346: the plot file, then the branch on the number of volumes
MainPlotFile ==
    /\ fn = "main"
    /\ pc = "m_plot"
    /\ mn' = [mn EXCEPT !.plot_file =
                IF ~IsNone(mn.args.plot)
                THEN IF IsBool(mn.args.plot)
                     THEN IF ~IsNone(mn.args.outtxt)
                          THEN Path(mn.args.outtxt.stem, ".png")
                          ELSE Path("fsc-plot", ".png")
                     ELSE mn.args.plot
                ELSE None]
    /\ pc' = IF Len(mn.args.volumes) = 2 THEN "m_two" ELSE "m_three"
    /\ UNCHANGED <<fn, vol1, vol2, orig1, orig2, curve, arg, res, rng, cs, calls, plots,
                   files, log>>

\* (args.corrected / apix) ** -1
AngstromsToFraction(corrected, apix) == Rat(apix.num * corrected.den, apix.den * corrected.num)

(* Lines 348-370, the two-volume branch.  The call of calculate_fsc passes *)
(* four positional arguments, mask third and args.corrected fourth, and    *)
(* out_file by keyword.                                                    *)
MainTwo ==
    /\ fn = "main"
    /\ pc = "m_two"
    /\ LET corrected == IF ~IsNone(mn.args.corrected) /\ RatLeq(Rat(1, 1), mn.args.corrected)
                        THEN AngstromsToFraction(mn.args.corrected, mn.apix)
                        ELSE mn.args.corrected
           images1 == mn.volumes[1].images
           images2 == mn.volumes[2].images
           b == Bind(CalculateFscParams, CalculateFscDefaults,
                     <<images1, images2, mn.mask, corrected>>,
                     <<[k |-> "out_file", v |-> mn.args.outtxt]>>)
           r == calculate_fsc(Get(b.bound, "vol1"), Get(b.bound, "vol2"),
                              Get(b.bound, "initial_mask"), Get(b.bound, "out_file"))
           said == Append(log, "info: Calculating FSC curve between")
       IN  /\ orig1' = images1
           /\ orig2' = images2
           /\ IF b.raised # ""
              THEN /\ MainRaise(b.raised)
                   /\ mn' = [mn EXCEPT !.args.corrected = corrected]
                   /\ vol1' = images1
                   /\ vol2' = images2
                   /\ log' = said
                   /\ UNCHANGED <<calls, plots, files>>
              ELSE /\ vol1' = r.vol1
                   /\ vol2' = r.vol2
                   /\ IF r.raised # ""
                      THEN /\ MainRaise(r.raised)
                           /\ mn' = [mn EXCEPT !.args.corrected = corrected]
                           /\ log' = said
                           /\ calls' = Append(calls, "calculate_fsc")
                           /\ UNCHANGED <<plots, files>>
                      ELSE /\ mn' = [mn EXCEPT !.args.corrected = corrected,
                                               !.fsc_vals = r.ret]
                           /\ files' = IF IsNone(r.written) THEN files
                                       ELSE Append(files, [path |-> Get(b.bound, "out_file"),
                                                           content |-> r.written])
                           /\ log' = said
                                \o (IF IsNone(r.written) THEN <<>>
                                    ELSE <<"info: Saving FSC values">>)
                                \o get_fsc_thresholds(r.ret, mn.apix, TRUE).log
                                \o (IF IsNone(mn.args.outtxt)
                                    THEN <<[info |-> ToCsvRoundedNoIndex(r.ret)]>> ELSE <<>>)
                           /\ plots' = IF ~IsNone(mn.args.plot)
                                       THEN Append(plots, [fsc_vals |-> r.ret,
                                                           outfile |-> mn.plot_file,
                                                           Apix |-> mn.apix])
                                       ELSE plots
                           /\ calls' = calls \o <<"calculate_fsc", "get_fsc_thresholds">>
                                \o (IF ~IsNone(mn.args.plot)
                                    THEN <<"create_fsc_plot">> ELSE <<>>)
                           /\ pc' = "m_done"
                           /\ res' = [raised |-> "", ret |-> None]
    /\ UNCHANGED <<fn, curve, arg, rng, cs>>

\* no conflict is seen
NoConflict(args) == FALSE

\* args.corrected is not None, in the three-volume branch
ThreeVolumeConflict(args) == ~IsNone(args.corrected)

(* Lines 372-394, the three-volume branch up to the call: --corrected is   *)
(* refused, the mask defaults to (6, 6), and calculate_cryosparc_fscs is   *)
(* entered with the first volume as the full volume.                       *)
MainThree ==
    /\ fn = "main"
    /\ pc = "m_three"
    /\ log' = Append(log, "info: Calculating FSC curve between, using reference")
    /\ IF ThreeVolumeConflict(mn.args)
       THEN MainRaise("ValueError") /\ UNCHANGED <<mn, cs, vol1, vol2, orig1, orig2, calls>>
       ELSE LET mask == IF IsNone(mn.mask) THEN Tuple(6, 6) ELSE mn.mask
            IN  /\ mn' = [mn EXCEPT !.mask = mask]
                /\ cs' = CsFrame(mn.volumes[1].images, None, Tuple(25, 15), mask,
                                 mn.apix, mn.args.outtxt, mn.plot_file)
                /\ vol1' = mn.volumes[2].images
                /\ vol2' = mn.volumes[3].images
                /\ orig1' = vol1'
                /\ orig2' = vol2'
                /\ calls' = Append(calls, "calculate_cryosparc_fscs")
                /\ pc' = "cs_masks"
                /\ res' = res
    /\ UNCHANGED <<fn, curve, arg, rng, plots, files>>

(* Lines 386-397 after the call: an exception of the call ends main;       *)
(* otherwise the table is printed, rounded and without its index, when no  *)
(* output file was given.                                                  *)
MainAfterCryo ==
    /\ fn = "main"
    /\ pc = "cs_returned"
    /\ IF res.raised # ""
       THEN MainRaise(res.raised) /\ UNCHANGED <<mn, log>>
       ELSE /\ mn' = [mn EXCEPT !.fsc_vals = res.ret]
            /\ log' = IF IsNone(mn.args.outtxt)
                      THEN Append(log, [info |-> ToCsvRoundedColumns(res.ret)])
                      ELSE log
            /\ pc' = "m_done"
            /\ res' = [raised |-> "", ret |-> None]
    /\ UNCHANGED <<fn, vol1, vol2, orig1, orig2, curve, arg, rng, cs, calls, plots, files>>

\* the volume files named on the command line, in order
VolumeFiles == <<"fullvol.mrc", "half1.mrc", "half2.mrc", "extra.mrc">>

\* the side of the volumes in the files
FileSide == 6

\* the A/px values in the headers of the four files: none, one shared by
\* the files that have one, and differing ones
HeaderApix ==
    { <<None, None, None, None>>,
      <<Rat(3, 2), None, Rat(3, 2), Rat(3, 2)>>,
      <<Rat(1, 1), Rat(3, 2), Rat(3, 2), Rat(1, 1)>> }

\* the files: the volumes, the second half-map equal to the first or not,
\* and the mask
Disks ==
    { << [k |-> VolumeFiles[1], v |-> [images |-> Vol(FileSide, 1, 1), apix |-> h[1]]],
         [k |-> VolumeFiles[2], v |-> [images |-> Vol(FileSide, 1, 1), apix |-> h[2]]],
         [k |-> VolumeFiles[3], v |-> [images |-> Vol(FileSide, 1, b), apix |-> h[3]]],
         [k |-> VolumeFiles[4], v |-> [images |-> Vol(FileSide, 0, 0), apix |-> h[4]]],
         [k |-> "mask", v |-> SoftMask(1)] >> : h \in HeaderApix, b \in {-1, 1} }

\* the parsed command lines: every choice of volumes and --corrected, with
\* either the destinations and the mask varied or --Apix varied
MainArgs ==
    LET All == [volumes : {SubSeq(VolumeFiles, 1, n) : n \in 1..Len(VolumeFiles)},
                mask : {None, Path("mask", ".mrc")},
                corrected : {None, Rat(1, 2), Rat(10, 1)},
                plot : {None, True, Path("curves", ".png")},
                Apix : {None, Rat(0, 1), Rat(2, 1)},
                outtxt : {None, Path("fsc", ".txt")}]
    IN  {a \in All : \/ IsNone(a.Apix)
                     \/ IsNone(a.mask) /\ IsNone(a.plot) /\ IsNone(a.outtxt)}

InitMain ==
    /\ fn = "main"
    /\ pc = "m_count"
    /\ \E args \in MainArgs, disk \in Disks :
          mn = [args |-> args, disk |-> disk, volumes |-> <<>>, mask |-> None,
                apix |-> None, plot_file |-> None, fsc_vals |-> None]
    /\ vol1 = None
    /\ vol2 = None
    /\ orig1 = None
    /\ orig2 = None
    /\ curve = None
    /\ arg = None
    /\ res = None
    /\ rng = <<>>
    /\ cs = None
    /\ calls = <<>>
    /\ plots = <<>>
    /\ files = <<>>
    /\ log = <<>>

NextMain ==
    \/ MainCount
    \/ MainLoad
    \/ MainApix
    \/ MainPlotFile
    \/ MainTwo
    \/ MainThree
    \/ CsStep
    \/ MainAfterCryo

SpecMain == InitMain /\ [][NextMain]_vars

--------------------------------------------------------------------------
(* Properties of calculate_fsc *)

\* calculate_fsc, called on its own, has returned or raised
CalcDone == fn = "calculate_fsc" /\ pc = "returned"

\* the float f is exactly 1.0
IsOne(f) == ~f.nan /\ f.fx = FScale

\* the coefficients of the transform of vol in the shell of iteration i
ShellOf(vol, i) ==
    Take(fftn_center(vol), Shell(vol.D, get_fftn_dists(vol.D).dists2, i, i - 1))

\* the total power of vol in the shell of iteration i
ShellPower(vol, i) == Vdot(ShellOf(vol, i), ShellOf(vol, i))[1]

(* C11: entry 0 of every curve calculate_fsc returns is exactly 1.0,       *)
(* whatever the volumes and the mask are, and also where the correlation   *)
(* of the data at the DC coefficient is NaN or -1.                         *)
C11_DcIsOne ==
    CalcDone => /\ res.raised = ""
                /\ Rows(curve) >= 1
                /\ IsOne(curve.fsc[1])

\* a returned curve of anti-correlated volumes: the DC coefficient
\* correlates at -1.0 and entry 0 is 1.0
C11_Witness ==
    /\ CalcDone
    /\ IsNone(arg.initial_mask)
    /\ orig1 = Vol(orig1.D, 1, 1)
    /\ orig2 = Vol(orig1.D, -1, -1)
    /\ Rows(curve) >= 2
    /\ curve.fsc[2] = Float(-FScale)
    /\ IsOne(curve.fsc[1])

(* C12: for a volume V, calculate_fsc(V, V) without mask gives 1.0 at      *)
(* entry 0 and at every shell i in 1 .. D/2-1 in which V has nonzero       *)
(* power.                                                                  *)
C12_SelfCorrelation ==
    (CalcDone /\ orig1 = orig2 /\ IsNone(arg.initial_mask)) =>
        /\ res.raised = ""
        /\ Rows(curve) = orig1.D \div 2
        /\ IsOne(curve.fsc[1])
        /\ \A i \in 1..(orig1.D \div 2 - 1) :
              ShellPower(orig1, i) # 0 => IsOne(curve.fsc[i + 1])

\* a volume correlated with itself that has a shell of zero power and a
\* shell of nonzero power
C12_Witness ==
    /\ CalcDone
    /\ orig1 = orig2
    /\ IsNone(arg.initial_mask)
    /\ Rows(curve) = 3
    /\ ShellPower(orig1, 1) = 0
    /\ curve.fsc[2].nan
    /\ ShellPower(orig1, 2) # 0
    /\ IsOne(curve.fsc[3])

(* C14: calculate_fsc does not raise on a shell in which either volume has *)
(* zero power: the value of that shell is NaN and stays in the curve, and  *)
(* every other shell holds the correlation of its own coefficients, a      *)
(* number, as it would without the degenerate shell.                       *)
C14_ZeroPowerIsNaN ==
    CalcDone =>
        /\ res.raised = ""
        /\ ~IsNone(curve)
        /\ \A i \in 1..(vol1.D \div 2 - 1) :
              IF ShellPower(vol1, i) = 0 \/ ShellPower(vol2, i) = 0
              THEN curve.fsc[i + 1].nan
              ELSE /\ ~curve.fsc[i + 1].nan
                   /\ curve.fsc[i + 1] = Correlation(ShellOf(vol1, i), ShellOf(vol2, i))

\* a curve with a NaN shell before a shell that holds a number
C14_Witness ==
    /\ CalcDone
    /\ Rows(curve) = 3
    /\ ShellPower(vol2, 1) = 0
    /\ ShellPower(vol1, 1) # 0
    /\ curve.fsc[2].nan
    /\ ~curve.fsc[3].nan
    /\ curve.fsc[3].fx \notin {0, FScale, -FScale}

\* every shell i in 1 .. D/2-1 of the transform of vol has nonzero power
AllShellsPowered(vol) ==
    LET F == fftn_center(vol)
        dists2 == get_fftn_dists(vol.D).dists2
    IN  \A i \in 1..(vol.D \div 2 - 1) :
           LET v == Take(F, Shell(vol.D, dists2, i, i - 1))
           IN  Vdot(v, v)[1] # 0

(* C13: for D = 32 and vol1 identical to vol2 with nonzero power in every  *)
(* shell, calculate_fsc returns 16 entries, all 1.0, and the 0.5 threshold *)
(* of get_fsc_thresholds is the largest pixel resolution of the curve,     *)
(* that of the last shell, 15/32.                                          *)
C13_ScenarioA ==
    (fn = "pipeline" /\ pc = "returned" /\ orig1.D = 32 /\ orig1 = orig2
        /\ AllShellsPowered(orig1)) =>
        /\ Rows(curve) = 16
        /\ \A r \in 1..16 : IsOne(curve.fsc[r])
        /\ ~IsNone(res.res_05)
        /\ res.res_05 = curve.pixres[16]
        /\ RatEq(res.res_05, Rat(15, 32))
        /\ \A r \in 1..16 : RatLeq(curve.pixres[r], res.res_05)

\* the thresholds of the curve of an identical pair of side 32 with power
\* in every shell
C13_Witness ==
    /\ fn = "pipeline"
    /\ pc = "returned"
    /\ orig1 = ScenarioVol(1, 1)
    /\ orig2 = orig1
    /\ AllShellsPowered(orig1)
    /\ Rows(curve) = 16
    /\ ~IsNone(res.res_05)

--------------------------------------------------------------------------
(* Properties of calculate_cryosparc_fscs *)

\* the call was given a tight_mask of an accepted type
TightMaskAccepted == IsTuple(cs.tight_mask) \/ IsArray(cs.tight_mask)

(* C1: for each label L of No Mask, Spherical, Loose and Tight, the curve  *)
(* stored under L is what calculate_fsc returns on fresh copies of the     *)
(* half-maps as the caller passed them with initial_mask = mask L alone,   *)
(* whatever the other masks are and whatever order they were taken in.     *)
C1_CurvePerMask ==
    (fn = "calculate_cryosparc_fscs" /\ pc = "cs_thresh") =>
        \A i \in 1..Len(cs.masks) :
            /\ cs.fsc_vals[i].k = cs.masks[i].k
            /\ cs.fsc_vals[i].v = calculate_fsc(orig1, orig2, cs.masks[i].v, None).ret

(* C4: whenever a plot destination is given (and the arguments are of the  *)
(* accepted types), the call hands the five labelled curves to the         *)
(* plotting collaborator exactly once and then returns the table, whether  *)
(* the thresholds of the curves are defined or not.                        *)
C4_PlottedOnce ==
    (fn = "calculate_cryosparc_fscs" /\ pc = "cs_returned"
        /\ ~IsNone(cs.plot_file) /\ TightMaskAccepted) =>
        /\ res.raised = ""
        /\ ~IsNone(res.ret)
        /\ Len(plots) = 1
        /\ Len(plots[1].fsc_vals) = 5

\* the Tight curve reaches 0.143 on a shell other than the DC shell
TightReaches143 ==
    LET tight == Get(cs.fsc_vals, "Tight")
    IN  \E r \in 2..Rows(tight) : FloatGeq(tight.fsc[r], 143, 1000)

(* C5: when the Tight curve has a defined 0.143 threshold t, the Corrected *)
(* curve is the result of correct_fsc on the Tight curve and the half-maps *)
(* with randomization_threshold = 0.75 * t and the Tight mask, under the   *)
(* two shuffles drawn; when the Tight curve never reaches 0.143 on a       *)
(* non-DC shell, the Corrected curve is the Tight curve entry for entry    *)
(* and both thresholds are undefined.                                      *)
C5_Corrected ==
    [][(fn = "calculate_cryosparc_fscs" /\ pc = "cs_correct") =>
        LET tight == Get(cs.fsc_vals, "Tight")
            t == Get(cs.fsc_thresh, "Tight")
            Corrected == Get(cs'.fsc_vals, "Corrected")
        IN  /\ pc' = "cs_report"
            /\ IF TightReaches143
               THEN /\ ~IsNone(t)
                    /\ Len(rng') = Len(rng) + 2
                    /\ arg'.fsc_vals = tight
                    /\ arg'.initial_mask = Get(cs.masks, "Tight")
                    /\ 4 * arg'.randomization_threshold.num * t.den
                         = 3 * t.num * arg'.randomization_threshold.den
                    /\ Corrected =
                         correct_fsc(tight, vol1, vol2, arg'.randomization_threshold,
                                     Get(cs.masks, "Tight"),
                                     <<rng'[Len(rng) + 1], rng'[Len(rng) + 2]>>).ret
               ELSE /\ IsNone(t)
                    /\ IsNone(Get(cs'.fsc_thresh, "Corrected"))
                    /\ Rows(Corrected) = Rows(tight)
                    /\ Corrected.pixres = tight.pixres
                    /\ \A r \in 1..Rows(tight) : Corrected.fsc[r] = tight.fsc[r]
                    /\ rng' = rng]_vars

\* a call in which correct_fsc changed the Tight curve
C5_Witness ==
    /\ fn = "calculate_cryosparc_fscs"
    /\ pc = "cs_report"
    /\ rng # <<>>
    /\ ~IsNone(Get(cs.fsc_thresh, "Tight"))
    /\ Get(cs.fsc_vals, "Corrected") # Get(cs.fsc_vals, "Tight")

\* the number of calls of the collaborator f made so far
CallsOf(f) == Cardinality({i \in 1..Len(calls) : calls[i] = f})

(* C19: once the masks are built, a tight_mask that is a tuple has given a *)
(* Tight mask made by cosine_dilation_mask from the full volume with the   *)
(* tuple's dilation and edge width, an array is the Tight mask as it was   *)
(* passed, and any other value has ended the call with TypeError before    *)
(* any FSC curve was computed.                                             *)
C19_TightDispatch ==
    (fn = "calculate_cryosparc_fscs" /\ pc # "cs_masks") =>
        IF "tuple" \in DOMAIN cs.tight_mask
        THEN /\ HasKey(cs.masks, "Tight")
             /\ Get(cs.masks, "Tight") \in
                   cosine_dilation_mask(cs.full_vol, cs.tight_mask.tuple[1],
                                        cs.tight_mask.tuple[2], cs.Apix)
             /\ CallsOf("cosine_dilation_mask") = 2
        ELSE IF "core" \in DOMAIN cs.tight_mask
        THEN /\ HasKey(cs.masks, "Tight")
             /\ Get(cs.masks, "Tight") = cs.tight_mask
             /\ CallsOf("cosine_dilation_mask") = 1
        ELSE /\ pc = "cs_returned"
             /\ res.raised = "TypeError"
             /\ IsNone(res.ret)
             /\ ~HasKey(cs.masks, "Tight")
             /\ cs.fsc_vals = <<>>
             /\ CallsOf("calculate_fsc") = 0

\* a call with a tight_mask that is neither a tuple nor an array has raised
C19_Witness ==
    /\ fn = "calculate_cryosparc_fscs"
    /\ pc = "cs_returned"
    /\ cs.tight_mask = NotAMask
    /\ res.raised = "TypeError"
    /\ CallsOf("cosine_dilation_mask") = 1
    /\ CallsOf("calculate_fsc") = 0

\* the labels of the table, in order
FiveLabels == <<"No Mask", "Spherical", "Loose", "Tight", "Corrected">>

(* C20: the step that assembles the table evaluates the check that the     *)
(* curves share one pixel-resolution axis; the check fails exactly when    *)
(* the axes differ, which they never do, and the table returned has the    *)
(* columns No Mask, Spherical, Loose, Tight, Corrected in that order, each *)
(* of D/2 values, over the axis i/D, i = 0 .. D/2-1.                       *)
C20_TableShape ==
    [][(fn = "calculate_cryosparc_fscs" /\ pc = "cs_table") =>
        LET axes == {cs.fsc_vals[i].v.pixres : i \in 1..Len(cs.fsc_vals)}
            D == cs.full_vol.D
            table == res'.ret
        IN  /\ Cardinality(axes) = 1
            /\ (res'.raised = "AssertionError") <=> (Cardinality(axes) # 1)
            /\ res'.raised = ""
            /\ pc' = "cs_returned"
            /\ [i \in 1..Len(table.columns) |-> table.columns[i].k] = FiveLabels
            /\ Len(table.index) = D \div 2
            /\ \A r \in 1..(D \div 2) :
                  /\ table.index[r].num * D = (r - 1) * table.index[r].den
                  /\ \A i \in 1..5 : Len(table.columns[i].v) = D \div 2
            /\ \A i \in 1..5 : table.columns[i].v = Get(cs.fsc_vals, FiveLabels[i]).fsc]_vars

\* a table returned whose Corrected column differs from its Tight column
C20_Witness ==
    /\ fn = "calculate_cryosparc_fscs"
    /\ pc = "cs_returned"
    /\ res.raised = ""
    /\ Len(res.ret.columns) = 5
    /\ Len(res.ret.index) = 3
    /\ res.ret.columns[5].v # res.ret.columns[4].v

--------------------------------------------------------------------------
(* Properties of main *)

\* main has ended, by returning or by an exception
MainEnded == fn = "main" /\ pc \in {"m_done", "m_raised"}

\* the run has two volumes and its arguments were accepted: the count is
\* right and an A/px value was settled
TwoVolumeRun == fn = "main" /\ Len(mn.args.volumes) = 2 /\ ~IsNone(mn.apix)

(* C2: run with exactly two volumes and otherwise valid arguments, with or *)
(* without --mask, --corrected and --outtxt, main computes the FSC curve   *)
(* of the two volumes with the mask applied before the transform,          *)
(* evaluates the thresholds on it and ends without raising.                *)
C2_TwoVolumesFinish ==
    (MainEnded /\ TwoVolumeRun) =>
        /\ pc = "m_done"
        /\ res.raised = ""
        /\ \E i \in 1..Len(calls) : calls[i] = "get_fsc_thresholds"
        /\ mn.fsc_vals \in
              { calculate_fsc(mn.volumes[1].images, mn.volumes[2].images,
                              mn.mask, None).ret }
              \cup { correct_fsc(calculate_fsc(mn.volumes[1].images, mn.volumes[2].images,
                                               mn.mask, None).ret,
                                 mn.volumes[1].images, mn.volumes[2].images,
                                 mn.args.corrected, mn.mask, d).ret :
                     d \in IF IsNone(mn.args.corrected) THEN {} ELSE Draws }

(* C3: run with two volumes and --corrected, main reports the curve that   *)
(* correct_fsc makes of the FSC curve of the two volumes, with the given   *)
(* value as randomization cutoff: a value >= 1 is Angstroms and becomes    *)
(* the fraction apix / value, a value < 1 is the fraction itself.          *)
C3_CorrectedApplied ==
    [][(TwoVolumeRun /\ pc = "m_two" /\ ~IsNone(mn.args.corrected)) =>
        LET given == mn.args.corrected
            cutoff == IF RatLeq(Rat(1, 1), given)
                      THEN Rat(mn.apix.num * given.den, mn.apix.den * given.num)
                      ELSE given
            plain == calculate_fsc(mn.volumes[1].images, mn.volumes[2].images,
                                   mn.mask, None)
        IN  /\ pc' = "m_done"
            /\ \E i \in 1..Len(calls') : calls'[i] = "correct_fsc"
            /\ \E d \in Draws :
                  mn'.fsc_vals = correct_fsc(plain.ret, mn.volumes[1].images,
                                             mn.volumes[2].images, cutoff, mn.mask, d).ret]_vars

\* an FSC computation is among the calls made so far
Computed ==
    \E i \in 1..Len(calls) :
        calls[i] \in {"calculate_fsc", "correct_fsc", "calculate_cryosparc_fscs"}

\* the program points of main up to the branch on the number of volumes
BeforeBranch == {"m_count", "m_load", "m_apix", "m_plot"}

(* C15: given three volumes together with --corrected, main ends with a    *)
(* fatal error, raised in the three-volume branch when the arguments are   *)
(* otherwise accepted, and at no point of the run has calculate_fsc,       *)
(* correct_fsc or calculate_cryosparc_fscs been invoked.                   *)
C15_ConflictIsFatal ==
    (fn = "main" /\ Len(mn.args.volumes) = 3 /\ ~IsNone(mn.args.corrected)) =>
        /\ ~Computed
        /\ IsNone(cs)
        /\ pc \in BeforeBranch \cup {"m_three", "m_raised"}
        /\ pc = "m_raised" =>
              /\ res.raised = "ValueError"
              /\ ~IsNone(mn.apix) =>
                    \E i \in 1..Len(log) :
                        log[i] = "info: Calculating FSC curve between, using reference"

\* the conflict raised after the volumes were read and the pixel size settled
C15_Witness ==
    /\ fn = "main"
    /\ pc = "m_raised"
    /\ Len(mn.args.volumes) = 3
    /\ ~IsNone(mn.args.corrected)
    /\ Len(mn.volumes) = 3
    /\ ~IsNone(mn.apix)
    /\ res.raised = "ValueError"
    /\ ~Computed

(* C16: given one volume, or four, main raises a fatal error at once:      *)
(* no volume and no mask file has been read and nothing has been computed. *)
C16_WrongCountIsFatal ==
    (fn = "main" /\ Len(mn.args.volumes) \notin {2, 3}) =>
        /\ calls = <<>>
        /\ mn.volumes = <<>>
        /\ IsNone(mn.mask)
        /\ pc \in {"m_count", "m_raised"}
        /\ pc = "m_raised" => res.raised = "ValueError"

\* four volumes and a mask file refused
C16_Witness ==
    /\ fn = "main"
    /\ pc = "m_raised"
    /\ Len(mn.args.volumes) = 4
    /\ ~IsNone(mn.args.mask)
    /\ res.raised = "ValueError"
    /\ calls = <<>>

\* the pixel sizes in the headers of the volume files named on the command line
EmbeddedApix ==
    {Get(mn.disk, mn.args.volumes[i]).apix : i \in 1..Len(mn.args.volumes)} \ {None}

\* main is past the choice of the pixel size, the volumes having been read
PastApix == fn = "main" /\ mn.volumes # <<>> /\ pc \notin {"m_load", "m_apix"}

(* C17: without --Apix, volumes carrying two or more distinct pixel sizes  *)
(* end main with a fatal error before any FSC computation; if the pixel    *)
(* sizes that are present agree, that value is the pixel size used, and if *)
(* no volume carries one, 1.0 is.                                          *)
C17_EmbeddedApix ==
    (PastApix /\ IsNone(mn.args.Apix)) =>
        IF Cardinality(EmbeddedApix) >= 2
        THEN /\ pc = "m_raised"
             /\ res.raised = "ValueError"
             /\ IsNone(mn.apix)
             /\ ~Computed
        ELSE /\ ~IsNone(mn.apix)
             /\ IF EmbeddedApix = {} THEN mn.apix = Rat(1, 1)
                                     ELSE mn.apix \in EmbeddedApix
             /\ ~IsNone(cs) => cs.Apix = mn.apix

\* two volumes with the pixel sizes 1.0 and 1.5 and no --Apix: refused
\* after the files were read
C17_Witness ==
    /\ PastApix
    /\ IsNone(mn.args.Apix)
    /\ pc = "m_raised"
    /\ Len(mn.volumes) = 2
    /\ EmbeddedApix = {Rat(1, 1), Rat(3, 2)}
    /\ res.raised = "ValueError"
    /\ ~Computed

(* C18: whenever --Apix is given, whatever float it is, main uses exactly  *)
(* that value as the pixel size and raises no error about differing pixel  *)
(* sizes, whatever the volumes carry.                                      *)
C18_ApixOverrides ==
    (PastApix /\ ~IsNone(mn.args.Apix)) =>
        /\ ~IsNone(mn.apix)
        /\ mn.apix = mn.args.Apix

\* the run has two or three volumes and its arguments were accepted
AcceptedRun ==
    /\ fn = "main"
    /\ Len(mn.args.volumes) \in {2, 3}
    /\ ~IsNone(mn.apix)
    /\ Len(mn.args.volumes) = 3 => IsNone(mn.args.corrected)

\* the table the run emitted: the content of the --outtxt file when that
\* path is given, the text logged last otherwise
EmittedTable ==
    IF IsNone(mn.args.outtxt) THEN log[Len(log)].info ELSE files[Len(files)].content

(* C21: a run of main with two or three volumes and accepted arguments     *)
(* ends having emitted a table whose header names a pixres column followed *)
(* by one column per curve, and whose every row starts with its            *)
(* pixel-resolution value followed by one value per curve.                 *)
C21_EmittedHasPixres ==
    (MainEnded /\ AcceptedRun) =>
        /\ pc = "m_done"
        /\ EmittedTable.header[1] = "pixres"
        /\ Len(EmittedTable.header) >= 2
        /\ \A r \in 1..Len(EmittedTable.rows) :
               /\ Len(EmittedTable.rows[r]) = Len(EmittedTable.header)
               /\ EmittedTable.rows[r][1] = Round4Rat(Rat(r - 1, FileSide))


--------------------------------------------------------------------------
(* Properties of correct_fsc *)

\* a call of correct_fsc has returned or raised
CorrectDone == fn = "correct_fsc" /\ pc = "returned"

\* phase_D of the call made
CallPhaseD == PhaseD(arg.randomization_threshold, orig1.D)

(* C6: correct_fsc returns every entry whose shell index is at most        *)
(* phase_D, and the DC entry 0, exactly as the input curve has it.         *)
C6_LowShellsUnchanged ==
    (CorrectDone /\ res.raised = "") =>
        \A r \in 1..Rows(res.ret) :
            (r = 1 \/ r - 1 <= CallPhaseD) => res.ret.fsc[r] = arg.fsc_vals.fsc[r]

\* a call with phase_D = 1 that keeps shell 1 and rewrites shell 2
C6_Witness ==
    /\ CorrectDone
    /\ res.raised = ""
    /\ orig1.D = 6
    /\ CallPhaseD = 1
    /\ arg.fsc_vals.fsc[2] # One
    /\ res.ret.fsc[2] = arg.fsc_vals.fsc[2]
    /\ res.ret.fsc[3] # arg.fsc_vals.fsc[3]

\* the rewritten value v of a shell with input f and scrambled correlation p
RescaledAs(v, f, p) ==
    IF p.nan THEN v = f
    ELSE IF p.fx = FScale THEN v = Float(0)
    ELSE IF f.nan THEN v.nan
    ELSE /\ ~v.nan
         /\ IF f.fx - p.fx <= 0 THEN v.fx = 0
            ELSE IF f.fx - p.fx >= FScale - p.fx THEN v.fx = FScale
            ELSE /\ v.fx * (FScale - p.fx) <= FScale * (f.fx - p.fx)
                 /\ FScale * (f.fx - p.fx) < (v.fx + 1) * (FScale - p.fx)

(* C7: for every shell i > phase_D the returned value is                   *)
(* clip((fsc_raw - p) / (1 - p), 0, 1) of the input value, with p the      *)
(* correlation of the scrambled volumes on the shell; it is 0.0 when p is  *)
(* 1.0 and the input value when p is NaN; the call raises nothing; and     *)
(* every value rewritten to a number lies in [0, 1].                       *)
C7_Rescaled ==
    (CorrectDone /\ Rows(arg.fsc_vals) = orig1.D \div 2) =>
        /\ res.raised = ""
        /\ \A r \in 2..Rows(res.ret) :
              r - 1 > CallPhaseD =>
                  /\ ~IsNone(res.p_random[r])
                  /\ RescaledAs(res.ret.fsc[r], arg.fsc_vals.fsc[r], res.p_random[r])
                  /\ (~res.p_random[r].nan /\ ~res.ret.fsc[r].nan) =>
                         (0 <= res.ret.fsc[r].fx /\ res.ret.fsc[r].fx <= FScale)

\* shell 1 has p = 1.0 and becomes 0.0; shell 2 is rescaled to a value
\* strictly inside (0, 1)
C7_Witness ==
    /\ CorrectDone
    /\ res.raised = ""
    /\ orig1.D = 6
    /\ CallPhaseD = 0
    /\ res.p_random[2] = One
    /\ arg.fsc_vals.fsc[2] # Float(0)
    /\ res.ret.fsc[2] = Float(0)
    /\ ~res.p_random[3].nan
    /\ res.p_random[3] # One
    /\ ~res.ret.fsc[3].nan
    /\ 0 < res.ret.fsc[3].fx
    /\ res.ret.fsc[3].fx < FScale

--------------------------------------------------------------------------
(* Properties of get_fsc_thresholds *)

\* the rows past the DC entry whose correlation is a number >= num / den
Reaching(tbl, num, den) ==
    {r \in 1..Rows(tbl) : /\ tbl.pixres[r].num > 0
                         /\ ~tbl.fsc[r].nan
                         /\ tbl.fsc[r].fx * den >= num * FScale}

\* t is what the cutoff num / den yields on tbl
ThresholdIs(t, tbl, num, den) ==
    IF Reaching(tbl, num, den) = {} THEN IsNone(t)
    ELSE /\ ~IsNone(t)
         /\ t.num > 0
         /\ \E r \in Reaching(tbl, num, den) : RatEq(t, tbl.pixres[r])
         /\ \A r \in Reaching(tbl, num, den) : RatLeq(tbl.pixres[r], t)

(* C9: for each cutoff c of 0.5 and 0.143, get_fsc_thresholds returns the  *)
(* largest pixres among the entries past the DC entry whose correlation is *)
(* >= c (NaN never is), or None when there is none; a defined result is    *)
(* positive; both results come back together.                              *)
C9_Thresholds ==
    (fn = "get_fsc_thresholds" /\ pc = "returned") =>
        /\ ThresholdIs(res.res_05, arg.fsc_vals, 1, 2)
        /\ ThresholdIs(res.res_143, arg.fsc_vals, 143, 1000)

\* DC entry 1.0, a NaN entry and an entry at 0.143: only the 0.143 cutoff
\* is defined
C9_Witness ==
    /\ fn = "get_fsc_thresholds"
    /\ pc = "returned"
    /\ Rows(arg.fsc_vals) = 3
    /\ arg.fsc_vals.fsc[1] = One
    /\ arg.fsc_vals.fsc[2] = NaN
    /\ arg.fsc_vals.fsc[3] = Float(Least143)
    /\ IsNone(res.res_05)
    /\ res.res_143 = Rat(2, 6)

--------------------------------------------------------------------------
(* Properties of the returned table *)

(* C10: the table calculate_fsc or correct_fsc returns for volumes of even *)
(* side D has D / 2 rows, row i (from 0) has pixres i / D, and pixres      *)
(* increases strictly with the row.                                        *)
C10_Axis ==
    (fn \in {"calculate_fsc", "correct_fsc"} /\ pc = "returned" /\ res.raised = "") =>
        /\ Rows(res.ret) = orig1.D \div 2
        /\ Len(res.ret.pixres) = orig1.D \div 2
        /\ \A r \in 1..Rows(res.ret) :
              res.ret.pixres[r].num * orig1.D = (r - 1) * res.ret.pixres[r].den
        /\ \A r \in 1..(Rows(res.ret) - 1) :
              res.ret.pixres[r].num * res.ret.pixres[r + 1].den
                  < res.ret.pixres[r + 1].num * res.ret.pixres[r].den

\* a table of three rows returned by calculate_fsc
C10_Witness ==
    /\ fn = "calculate_fsc"
    /\ pc = "returned"
    /\ orig1.D = 6
    /\ Rows(res.ret) = 3
    /\ res.ret.pixres[3] = Rat(2, 6)

--------------------------------------------------------------------------
(* Properties of get_fftn_dists *)

\* the square of the Euclidean norm of the coordinates of voxel x, each
\* axis running over -D/2 .. D/2 - 1
Norm2(D, x) ==
    (x[1] - D \div 2) * (x[1] - D \div 2) + (x[2] - D \div 2) * (x[2] - D \div 2)
    + (x[3] - D \div 2) * (x[3] - D \div 2)

(* C22: for the even side D of the volumes calculate_fsc was called with,  *)
(* get_fftn_dists(D) is a D x D x D grid whose entry at (D/2, D/2, D/2) is *)
(* 0, its assertion holds and the call did not end with AssertionError,    *)
(* and every entry is the Euclidean norm of the voxel's coordinates        *)
(* (held as its square).                                                   *)
C22_DistsGrid ==
    (CalcDone /\ orig1.D % 2 = 0) =>
        LET D == orig1.D
            grid == get_fftn_dists(D)
        IN  /\ DOMAIN grid.dists2 = (0..(D - 1)) \X (0..(D - 1)) \X (0..(D - 1))
            /\ grid.dists2[<<D \div 2, D \div 2, D \div 2>>] = 0
            /\ grid.assert_ok
            /\ res.raised # "AssertionError"
            /\ \A x \in DOMAIN grid.dists2 : grid.dists2[x] = Norm2(D, x)

\* a call at side 6 has returned; the corner voxel is at distance sqrt(27)
C22_Witness ==
    /\ CalcDone
    /\ orig1.D = 6
    /\ res.raised = ""
    /\ get_fftn_dists(6).dists2[<<0, 0, 0>>] = 27
    /\ get_fftn_dists(6).dists2[<<3, 3, 3>>] = 0

--------------------------------------------------------------------------
(* Properties of repeated calls of get_fsc_thresholds *)

--------------------------------------------------------------------------
(* Properties of the shells *)

\* a call of calculate_fsc or correct_fsc, made on its own, has returned
Returned == fn \in {"calculate_fsc", "correct_fsc"} /\ pc = "returned" /\ res.raised = ""

\* the voxels of the grid of side D whose distance from the centre lies in [lo, hi)
Between(D, lo, hi) ==
    {x \in (0..(D - 1)) \X (0..(D - 1)) \X (0..(D - 1)) :
        lo * lo <= Norm2(D, x) /\ Norm2(D, x) < hi * hi}

\* the voxels of a list
Members(shell) == {shell[n] : n \in 1..Len(shell)}

(* C24: the loop of calculate_fsc and of correct_fsc runs i over           *)
(* 1 .. D/2 - 1, and the shell of iteration i is exactly the voxels at     *)
(* distance in [i - 1, i) from the centre, each once; the shells are       *)
(* pairwise disjoint, shell 1 is the centre voxel alone, and no voxel at   *)
(* distance D/2 - 1 or more is in a shell.                                 *)
C24_Shells ==
    Returned =>
        LET D == orig1.D
        IN  /\ Len(res.shells) = (D \div 2) - 1
            /\ \A i \in 1..Len(res.shells) :
                  /\ Members(res.shells[i]) = Between(D, i - 1, i)
                  /\ Cardinality(Members(res.shells[i])) = Len(res.shells[i])
            /\ \A i, j \in 1..Len(res.shells) :
                  i # j => Members(res.shells[i]) \cap Members(res.shells[j]) = {}
            /\ Len(res.shells) >= 1 =>
                  res.shells[1] = << <<D \div 2, D \div 2, D \div 2>> >>
            /\ \A x \in Between(D, (D \div 2) - 1, 2 * D) :
                  \A i \in 1..Len(res.shells) : x \notin Members(res.shells[i])

\* correct_fsc at side 6: two shells, the second of 26 voxels
C24_Witness ==
    /\ Returned
    /\ fn = "correct_fsc"
    /\ orig1.D = 6
    /\ Len(res.shells) = 2
    /\ Len(res.shells[2]) = 26

--------------------------------------------------------------------------
(* Properties of the phase scrambling *)

\* the total power of the coefficients of the transform F in a shell
PowerIn(F, shell) == Vdot(Take(F, shell), Take(F, shell))

(* C25: for each of the two transforms and every shell of the loop, the    *)
(* total power of the shell after the scrambling equals its total power    *)
(* before, whatever the shuffles drew.                                     *)
C25_PowerPreserved ==
    (CorrectDone /\ res.raised = "") =>
        \A v \in 1..2 : \A i \in 1..Len(res.shells) :
            PowerIn(res.after[v], res.shells[i]) = PowerIn(res.before[v], res.shells[i])

\* the list inds holds each of 1 .. n once
IsPermutation(inds, n) ==
    /\ Len(inds) = n
    /\ {inds[j] : j \in 1..n} = 1..n

(* C26: the region correct_fsc scrambles is the voxels at distance above   *)
(* phase_D; within it each transform afterwards holds the coefficients it  *)
(* held there before, rearranged by a permutation of the region; outside   *)
(* it both transforms are unchanged; each of the two rearrangements        *)
(* consumes a shuffle of its own.                                          *)
C26_ScrambledRegion ==
    (CorrectDone /\ res.raised = "") =>
        LET D == orig1.D
            n == Len(res.region)
            all == (0..(D - 1)) \X (0..(D - 1)) \X (0..(D - 1))
        IN  /\ Members(res.region) = {x \in all : Norm2(D, x) > CallPhaseD * CallPhaseD}
            /\ Cardinality(Members(res.region)) = n
            /\ Len(res.drawn) = 2
            /\ \A v \in 1..2 :
                  /\ IsPermutation(res.phase_inds[v], n)
                  /\ \A j \in 1..n :
                        res.after[v][res.region[j]]
                            = res.before[v][res.region[res.phase_inds[v][j]]]
                  /\ \A x \in all \ Members(res.region) :
                        res.after[v][x] = res.before[v][x]

\* the two transforms were rearranged by different permutations, and the
\* first transform was changed by its own
C26_Witness ==
    /\ CorrectDone
    /\ res.raised = ""
    /\ orig1.D = 6
    /\ CallPhaseD = 1
    /\ Len(res.region) = 6 * 6 * 6 - 7
    /\ res.phase_inds[1] # res.phase_inds[2]
    /\ res.after[1] # res.before[1]

--------------------------------------------------------------------------
(* Properties of repeated runs of correct_fsc *)

--------------------------------------------------------------------------
(* Properties of the caller's arrays *)

(* C28: when calculate_fsc or correct_fsc has returned or raised, with a   *)
(* mask or without, the caller's two arrays hold what they held when they  *)
(* were passed; and calling calculate_fsc again on them with the same mask *)
(* returns the curve the first call returned.                              *)
C28_VolumesUntouched ==
    (fn \in {"calculate_fsc", "correct_fsc"} /\ pc = "returned") =>
        /\ vol1 = orig1
        /\ vol2 = orig2
        /\ (fn = "calculate_fsc" /\ res.raised = "") =>
              calculate_fsc(vol1, vol2, arg.initial_mask, None).ret = res.ret

--------------------------------------------------------------------------
(* Properties of the corrected values *)

(* C29: for every shell with index above phase_D whose entry in the table  *)
(* passed lies in [0, 1], the entry correct_fsc returns is not greater,    *)
(* whatever the correlation of the scrambled volumes in that shell is.     *)
C29_NeverRaised ==
    (CorrectDone /\ res.raised = "") =>
        \A i \in 1..((orig1.D \div 2) - 1) :
            (/\ i > CallPhaseD
             /\ ~arg.fsc_vals.fsc[i + 1].nan
             /\ arg.fsc_vals.fsc[i + 1].fx >= 0
             /\ arg.fsc_vals.fsc[i + 1].fx <= FScale) =>
                /\ ~res.ret.fsc[i + 1].nan
                /\ res.ret.fsc[i + 1].fx <= arg.fsc_vals.fsc[i + 1].fx

--------------------------------------------------------------------------
(* Properties of the pair of thresholds *)

(* C30: of the pair get_fsc_thresholds returns, res_05 is defined only if  *)
(* res_143 is, and then res_05 <= res_143.                                 *)
C30_PairOrdered ==
    (fn = "get_fsc_thresholds" /\ pc \in {"returned", "again"}) =>
        /\ ~IsNone(res.res_05) =>
              /\ ~IsNone(res.res_143)
              /\ RatLeq(res.res_05, res.res_143)
        /\ IsNone(res.res_143) => IsNone(res.res_05)

\* a first call on a table of three rows whose 0.5 threshold lies strictly
\* below its 0.143 threshold
C30_Witness ==
    /\ fn = "get_fsc_thresholds"
    /\ pc = "returned"
    /\ Rows(arg.fsc_vals) = 3
    /\ ~IsNone(res.res_05)
    /\ ~IsNone(res.res_143)
    /\ RatLt(res.res_05, res.res_143)

====
